---- MODULE Spec2Model ----
(***************************************************************************)
(* GreenOPS-Advisor: the recommendation engine of backend/ai_advisor.py,   *)
(* backend/ai_provider.py and backend/utils.py.                            *)
(*                                                                         *)
(* Python floats are modelled as exact rationals (see below), without the  *)
(* rounding of binary floating point; Python strings as sequences of       *)
(* one-character strings; a Python                                         *)
(* value of unknown type as a tagged tuple <<"none">>, <<"num", r>> or     *)
(* <<"str", s>>; the outcome of a call as <<"ok", v>> or <<"raise", e>>.   *)
(***************************************************************************)
EXTENDS Integers, Sequences, FiniteSets, TLC

VARIABLES
    u_arg,      \* utils: the argument handed to the two converters
    u_cpu,      \* utils: outcome of parse_cpu_to_cores(u_arg)
    u_mem,      \* utils: outcome of parse_mem_to_gb(u_arg)
    r_sample,   \* estimator: the workload_data handed to compute_rightsizing
    r_out,      \* estimator: outcome of compute_rightsizing(r_sample)
    r_prev,     \* estimator: sample and outcome of the call made before
    g_sample,   \* orchestrator: workload_data of generate_recommendation
    g_provider, \* environment: AI_PROVIDER
    g_api_key,  \* environment: the configured provider's API key is set
    g_retries,  \* environment: AI_RETRIES
    g_pc,       \* orchestrator: where the call stands
    g_attempt,  \* ask: the loop variable attempt
    g_last_exception,   \* ask: last_exception
    g_requests, \* the outcome of every requests.post made, in order
    g_sleeps,   \* the base delay (without jitter) of every time.sleep made
    g_ask,      \* outcome of ai_provider.ask
    g_response_data,    \* what call_ai_model returned
    g_result,   \* outcome of generate_recommendation
    m_text,     \* merge patch: original_yaml_text
    m_suggested,    \* merge patch: suggested_resources
    m_out,      \* merge patch: what generate_strategic_merge_patch returned
    p_workload, \* patch: workload_data of generate_yaml_patch
    p_rec,      \* patch: recommendation
    p_manifest, \* patch: workload_manifest
    p_out,      \* patch: outcome of generate_yaml_patch
    s_workload, \* security: workload_data of analyze_security
    s_out,      \* security: the list analyze_security returned
    i_workload, \* images: workload_data of the image analysis
    i_token,    \* environment: GITHUB_TOKEN is set
    i_registry, \* environment: what the registry answers for each image
    i_out,      \* images: outcome of analyze_image_optimization_opportunities
    a_rows,     \* analyze: cost_metrics.data of the workload
    a_energy,   \* analyze: the carbon_gco2e of energy_metrics.data
    a_pc,       \* analyze: where the handler stands for the workload
    a_opportunities,    \* analyze: the rows inserted into opportunities
    a_kind,     \* analyze: the kind of the workload
    a_read,     \* environment: what reading the workload from the cluster gives
    a_warned,   \* analyze: the scheduling analysis ended in its except branch
    active_connections, \* ConnectionManager: the list of websockets
    ws_pc,      \* websocket handlers: where each handler stands
    ws_open,    \* environment: the client of each websocket is still there
    bc_pc,      \* broadcast: where the running broadcast stands
    bc_index,   \* broadcast: the position of the list iterator
    bc_connection,  \* broadcast: the loop variable connection
    bc_disconnected,    \* broadcast: the list disconnected
    bc_attempted,   \* broadcast: the websockets send_text was called on
    bc_stayed,  \* broadcast: the websockets listed since the broadcast began
    clusters,   \* ClusterManager: the dict clusters
    c_call,     \* ClusterManager: the last call made, with what it returned
    c_calls,    \* ClusterManager: the number of calls made
    h_request,  \* endpoints: the request and what the database holds for it
    h_response, \* endpoints: status code and detail of the response
    h_processed \* endpoints: the webhook payload was parsed

utilsVars == <<u_arg, u_cpu, u_mem>>
sizingVars == <<r_sample, r_out, r_prev>>
envVars == <<g_sample, g_provider, g_api_key, g_retries>>
orchVars == <<g_sample, g_provider, g_api_key, g_retries, g_pc, g_attempt,
              g_last_exception, g_requests, g_sleeps, g_ask, g_response_data,
              g_result>>
mergeVars == <<m_text, m_suggested, m_out>>
\* the variables of the components below the orchestrator
patchVars == <<p_workload, p_rec, p_manifest, p_out>>
securityVars == <<s_workload, s_out>>
imageVars == <<i_workload, i_token, i_registry, i_out>>
analyzeVars ==
    <<a_rows, a_energy, a_pc, a_opportunities, a_kind, a_read, a_warned>>
wsVars ==
    <<active_connections, ws_pc, ws_open, bc_pc, bc_index, bc_connection,
      bc_disconnected, bc_attempted, bc_stayed>>
clusterVars == <<clusters, c_call, c_calls>>
httpVars == <<h_request, h_response, h_processed>>
serverVars == <<wsVars, clusterVars, httpVars>>
laterVars == <<imageVars, analyzeVars, serverVars>>
extVars == <<mergeVars, patchVars, securityVars, laterVars>>
vars == <<u_arg, u_cpu, u_mem, r_sample, r_out, r_prev, g_sample, g_provider,
          g_api_key, g_retries, g_pc, g_attempt, g_last_exception, g_requests,
          g_sleeps, g_ask, g_response_data, g_result, extVars>>

(***************************************************************************)
(* Bounds of the model.                                                    *)
(***************************************************************************)
MaxStrLen == 3
\* used CPU / memory range over -1/4, 0, 1/4, ..., MaxUsedQuarters/4
MaxUsedQuarters == 8
\* AI_RETRIES ranges over 0..MaxRetries
MaxRetries == 3
\* a manifest lists at most MaxContainers containers
MaxContainers == 2
\* the rows of cost_metrics.data of a workload are at most this many
MaxRows == 2

(***************************************************************************)
(* Exact arithmetic (stands for Python float arithmetic).  A number is     *)
(* <<n, d, e>> = n / (d * 2^e) in normal form: d odd and positive, e >= 0, *)
(* n and d coprime, n odd unless e = 0.  The binary exponent is kept apart *)
(* so that byte counts divided by 1024^3 stay within machine integers.     *)
(***************************************************************************)
Abs(x) == IF x < 0 THEN 0 - x ELSE x

RECURSIVE Gcd(_, _)
Gcd(a, b) == IF b = 0 THEN a ELSE Gcd(b, a % b)

RECURSIVE Pow2(_)
Pow2(k) == IF k = 0 THEN 1 ELSE 2 * Pow2(k - 1)

\* twos out of the denominator, into the exponent
RECURSIVE QDen(_, _, _)
QDen(n, d, e) == IF d % 2 = 0 THEN QDen(n, d \div 2, e + 1) ELSE <<n, d, e>>

\* twos out of the numerator, against the exponent
RECURSIVE QNum(_, _, _)
QNum(n, d, e) ==
    IF e > 0 /\ n % 2 = 0 THEN QNum(n \div 2, d, e - 1) ELSE <<n, d, e>>

Q(n, d, e) ==
    IF n = 0 THEN <<0, 1, 0>>
    ELSE LET a == QDen(n, d, e)
             b == QNum(a[1], a[2], a[3])
             g == Gcd(Abs(b[1]), b[2])
         IN  <<b[1] \div g, b[2] \div g, b[3]>>

RInt(n) == <<n, 1, 0>>

Frac(n, d) == Q(n, d, 0)

RMul(x, y) ==
    LET g1 == IF x[1] = 0 THEN 1 ELSE Gcd(Abs(x[1]), y[2])
        g2 == IF y[1] = 0 THEN 1 ELSE Gcd(Abs(y[1]), x[2])
    IN  Q((x[1] \div g1) * (y[1] \div g2), (x[2] \div g2) * (y[2] \div g1),
          x[3] + y[3])

RDiv(x, k) == RMul(x, Frac(1, k))

RNeg(x) == <<0 - x[1], x[2], x[3]>>

RAdd(x, y) ==
    LET g == Gcd(x[2], y[2])
        E == IF x[3] < y[3] THEN y[3] ELSE x[3]
    IN  Q(x[1] * (y[2] \div g) * Pow2(E - x[3])
            + y[1] * (x[2] \div g) * Pow2(E - y[3]),
          (x[2] \div g) * y[2], E)

RSub(x, y) == RAdd(x, RNeg(y))

\* a * 2^k < b over the integers, without forming the product
RECURSIVE ShlLess(_, _, _)
ShlLess(a, k, b) == IF k = 0 THEN a < b ELSE ShlLess(a, k - 1, (b + 1) \div 2)

RLess(x, y) ==
    LET a == x[1] * y[2]
        b == y[1] * x[2]
    IN  IF y[3] >= x[3] THEN ShlLess(a, y[3] - x[3], b)
        ELSE ~ShlLess(b, x[3] - y[3], a + 1)

RLeq(x, y) == ~RLess(y, x)

RMax(x, y) == IF RLess(x, y) THEN y ELSE x

(***************************************************************************)
(* Python strings.                                                         *)
(***************************************************************************)
Digits == {"0", "1", "2"}

DigitVal(c) == CASE c = "0" -> 0 [] c = "1" -> 1 [] c = "2" -> 2

\* The characters input strings are drawn from.
Chars == Digits \cup {"m", "K", "M", "G", "i", "x", " "}

Strings == UNION {[1..n -> Chars] : n \in 0..MaxStrLen}

\* str.upper()
UpperChar(c) ==
    CASE c = "m" -> "M" [] c = "i" -> "I" [] c = "x" -> "X" [] OTHER -> c

Upper(s) == [k \in 1..Len(s) |-> UpperChar(s[k])]

\* str.strip()
RECURSIVE LStrip(_)
LStrip(s) == IF s # <<>> /\ Head(s) = " " THEN LStrip(Tail(s)) ELSE s

RECURSIVE RStrip(_)
RStrip(s) ==
    IF s # <<>> /\ s[Len(s)] = " " THEN RStrip(SubSeq(s, 1, Len(s) - 1)) ELSE s

Strip(s) == RStrip(LStrip(s))

\* str.endswith(suffix)
EndsWith(s, suf) ==
    /\ Len(suf) <= Len(s)
    /\ SubSeq(s, Len(s) - Len(suf) + 1, Len(s)) = suf

\* s[:-k]
DropLast(s, k) == SubSeq(s, 1, Len(s) - k)

RECURSIVE DecimalVal(_)
DecimalVal(s) ==
    IF s = <<>> THEN 0
    ELSE 10 * DecimalVal(DropLast(s, 1)) + DigitVal(s[Len(s)])

\* float(s): surrounding whitespace is ignored; over Chars the only text
\* Python accepts is a non-empty run of digits; anything else is ValueError.
PyFloat(s) ==
    LET t == Strip(s)
    IN  IF t # <<>> /\ \A k \in 1..Len(t) : t[k] \in Digits
        THEN <<"ok", RInt(DecimalVal(t))>>
        ELSE <<"raise", "ValueError">>

\* float(text) / k, the exception passing through
FloatOver(s, k) ==
    LET f == PyFloat(s)
    IN  IF f[1] = "ok" THEN <<"ok", RDiv(f[2], k)>> ELSE f

(***************************************************************************)
(* backend/utils.py                                                        *)
(***************************************************************************)
Kibi == 1024
Mebi == 1048576
Gibi == 1073741824

parse_cpu_to_cores(cpu_str) ==
    IF cpu_str[1] = "none" THEN <<"ok", RInt(0)>>
    ELSE IF cpu_str[1] = "num" THEN <<"ok", cpu_str[2]>>
    ELSE LET cpu == Strip(cpu_str[2])
         IN  IF EndsWith(cpu, <<"m">>)
             THEN FloatOver(DropLast(cpu, 1), 1000)
             ELSE PyFloat(cpu)

parse_mem_to_gb(mem_str) ==
    IF mem_str[1] = "none" THEN <<"ok", RInt(0)>>
    ELSE IF mem_str[1] = "num" THEN <<"ok", RDiv(mem_str[2], Gibi)>>
    ELSE LET s == Upper(Strip(mem_str[2]))
         IN  IF EndsWith(s, <<"G", "I">>) THEN PyFloat(DropLast(s, 2))
             ELSE IF EndsWith(s, <<"G">>) THEN PyFloat(DropLast(s, 1))
             ELSE IF EndsWith(s, <<"M", "I">>) THEN FloatOver(DropLast(s, 2), Kibi)
             ELSE IF EndsWith(s, <<"M">>) THEN FloatOver(DropLast(s, 1), Kibi)
             ELSE IF EndsWith(s, <<"K">>) THEN FloatOver(DropLast(s, 1), Mebi)
             ELSE FloatOver(s, Gibi)

\* The values a caller can hand to a converter.
NumArgs == {RInt(0), RInt(1), RInt(2), Frac(1, 2)}

PyArgs ==
    {<<"none">>} \cup {<<"num", r>> : r \in NumArgs} \cup {<<"str", s>> : s \in Strings}

Pending == <<"pending">>

Idle == <<"idle">>

UtilsIdle == u_arg = Idle /\ u_cpu = Idle /\ u_mem = Idle

MergeIdle == m_text = Idle /\ m_suggested = Idle /\ m_out = Idle

PatchIdle ==
    p_workload = Idle /\ p_rec = Idle /\ p_manifest = Idle /\ p_out = Idle

SecurityIdle == s_workload = Idle /\ s_out = Idle

ImageIdle ==
    i_workload = Idle /\ i_token = Idle /\ i_registry = Idle /\ i_out = Idle

AnalyzeIdle ==
    /\ a_rows = Idle /\ a_energy = Idle /\ a_pc = Idle
    /\ a_opportunities = Idle /\ a_kind = Idle /\ a_read = Idle
    /\ a_warned = Idle

WsIdle ==
    /\ active_connections = Idle /\ ws_pc = Idle /\ ws_open = Idle
    /\ bc_pc = Idle /\ bc_index = Idle /\ bc_connection = Idle
    /\ bc_disconnected = Idle /\ bc_attempted = Idle /\ bc_stayed = Idle

ClusterIdle == clusters = Idle /\ c_call = Idle /\ c_calls = Idle

HttpIdle == h_request = Idle /\ h_response = Idle /\ h_processed = Idle

ServerIdle == WsIdle /\ ClusterIdle /\ HttpIdle

LaterIdle == ImageIdle /\ AnalyzeIdle /\ ServerIdle

ExtIdle == MergeIdle /\ PatchIdle /\ SecurityIdle /\ LaterIdle

OrchIdle ==
    /\ g_sample = Idle /\ g_provider = Idle /\ g_api_key = Idle
    /\ g_retries = Idle /\ g_pc = Idle /\ g_attempt = Idle
    /\ g_last_exception = Idle /\ g_requests = Idle /\ g_sleeps = Idle
    /\ g_ask = Idle /\ g_response_data = Idle /\ g_result = Idle

(***************************************************************************)
(* backend/ai_advisor.py: compute_rightsizing                              *)
(***************************************************************************)
HOURS_PER_MONTH == 720
DEFAULT_BUFFER == Frac(5, 4)
COST_PER_CPU_HOUR == Frac(2, 100)
COST_PER_GB_HOUR == Frac(5, 1000)
REDUCTION_THRESHOLD == Frac(85, 100)
\* the literal 0.001 in max(0.001, used * DEFAULT_BUFFER)
SuggestionFloor == Frac(1, 1000)

Absent == <<"absent">>

\* workload_data.get(key, default)
DictGet(v, default) == IF v = Absent THEN default ELSE v

\* float(v) of a value of any type
PyFloatOf(v) ==
    IF v[1] = "num" THEN <<"ok", v[2]>>
    ELSE IF v[1] = "str" THEN PyFloat(v[2])
    ELSE <<"raise", "TypeError">>

\* the suggestion without its floor
Suggested_NoFloor(used) == RMul(used, DEFAULT_BUFFER)

\* the suggestion falling as the usage grows
Suggested_Falling(used) == RMax(SuggestionFloor, RMul(used, RNeg(DEFAULT_BUFFER)))

\* max(0.001, used * DEFAULT_BUFFER)
Suggested(used) == RMax(SuggestionFloor, RMul(used, DEFAULT_BUFFER))

\* the reduction counted whatever the slack
Reduction_AnySlack(req, suggested) == RSub(req, suggested)

\* cpu_reduction / mem_reduction: 0.0 unless suggested < req * threshold
Reduction(req, suggested) ==
    IF RLess(suggested, RMul(req, REDUCTION_THRESHOLD))
    THEN RSub(req, suggested) ELSE RInt(0)

compute_rightsizing(workload_data) ==
    LET cpu_req == parse_cpu_to_cores(DictGet(workload_data.cpu_requested, <<"str", <<"0">>>>))
        mem_req == parse_mem_to_gb(DictGet(workload_data.memory_requested, <<"str", <<"0">>>>))
        cpu_used == PyFloatOf(DictGet(workload_data.cpu_used, <<"num", RInt(0)>>))
        mem_used == PyFloatOf(DictGet(workload_data.memory_used, <<"num", RInt(0)>>))
    IN  IF cpu_req[1] = "raise" THEN cpu_req
        ELSE IF mem_req[1] = "raise" THEN mem_req
        ELSE IF cpu_used[1] = "raise" THEN cpu_used
        ELSE IF mem_used[1] = "raise" THEN mem_used
        ELSE LET suggested_cpu == Suggested(cpu_used[2])
                 suggested_mem == Suggested(mem_used[2])
                 cpu_reduction == Reduction(cpu_req[2], suggested_cpu)
                 mem_reduction == Reduction(mem_req[2], suggested_mem)
                 monthly_saving ==
                     RMul(RAdd(RMul(cpu_reduction, COST_PER_CPU_HOUR),
                               RMul(mem_reduction, COST_PER_GB_HOUR)),
                          RInt(HOURS_PER_MONTH))
             IN  <<"ok", [suggested_cpu |-> suggested_cpu,
                          suggested_mem_gb |-> suggested_mem,
                          monthly_saving_usd |-> monthly_saving]>>

\* Requested quantities a sample can carry: numbers in canonical units,
\* Kubernetes quantity strings, text that is no quantity, None, or no key.
RequestedVals ==
    {Absent, <<"none">>,
     <<"num", RInt(0)>>, <<"num", RInt(2)>>, <<"num", Frac(1, 2)>>,
     <<"str", <<"2">>>>, <<"str", <<"2", "0", "0", "m">>>>,
     <<"str", <<"2", "G", "i">>>>, <<"str", <<"2", "M", "i">>>>,
     <<"str", <<"x">>>>, <<"str", <<>>>>}

UsedNums == {<<"num", Frac(k, 4)>> : k \in -1..MaxUsedQuarters}

UsedVals == UsedNums \cup {Absent, <<"none">>, <<"str", <<"1">>>>}

SizingSamples ==
    [cpu_requested : RequestedVals, memory_requested : RequestedVals,
     cpu_used : UsedVals, memory_used : UsedVals]

SizingIdle == r_sample = Idle /\ r_out = Idle /\ r_prev = Idle

\* no call made before
NoCall == <<"nocall">>

InitSizing ==
    /\ r_sample \in SizingSamples
    /\ r_out = Pending
    /\ r_prev = NoCall
    /\ UtilsIdle
    /\ OrchIdle
    /\ ExtIdle

ComputeRightsizing ==
    /\ r_out = Pending
    /\ r_out' = compute_rightsizing(r_sample)
    /\ UNCHANGED <<r_sample, r_prev, utilsVars, orchVars, extVars>>

NextSizing == ComputeRightsizing

SpecSizing == InitSizing /\ [][NextSizing]_vars

(***************************************************************************)
(* compute_rightsizing called twice: on a sample, and then on the same     *)
(* sample or on one that differs from it in a larger cpu_used or a larger  *)
(* memory_used only.  The function assigns to none of the keys of          *)
(* workload_data, so the first call leaves the sample as it was.           *)
(***************************************************************************)
PairRequestedVals ==
    {Absent, <<"num", RInt(2)>>, <<"str", <<"2", "0", "0", "m">>>>,
     <<"str", <<"2", "G", "i">>>>, <<"str", <<"x">>>>}

PairSamples ==
    [cpu_requested : PairRequestedVals, memory_requested : PairRequestedVals,
     cpu_used : UsedVals, memory_used : UsedVals]

\* the numbers of UsedNums above the number v
LargerNums(v) ==
    IF v[1] = "num" THEN {u \in UsedNums : RLess(v[2], u[2])} ELSE {}

\* the samples that differ from sample in a larger used quantity only
LargerUsed(sample) ==
    {[sample EXCEPT !.cpu_used = u] : u \in LargerNums(sample.cpu_used)}
    \cup {[sample EXCEPT !.memory_used = u] :
              u \in LargerNums(sample.memory_used)}

InitSizingPair ==
    /\ r_sample \in PairSamples
    /\ r_out = Pending
    /\ r_prev = NoCall
    /\ UtilsIdle
    /\ OrchIdle
    /\ ExtIdle

\* the caller keeps the first outcome and calls again
CallAgain ==
    /\ r_out # Pending
    /\ r_prev = NoCall
    /\ r_prev' = <<"call", r_sample, r_out>>
    /\ r_sample' \in {r_sample} \cup LargerUsed(r_sample)
    /\ r_out' = Pending
    /\ UNCHANGED <<utilsVars, orchVars, extVars>>

NextSizingPair == ComputeRightsizing \/ CallAgain

SpecSizingPair == InitSizingPair /\ [][NextSizingPair]_vars

InitUtils ==
    /\ u_arg \in PyArgs
    /\ u_cpu = Pending
    /\ u_mem = Pending
    /\ SizingIdle
    /\ OrchIdle
    /\ ExtIdle

ParseCpu ==
    /\ u_cpu = Pending
    /\ u_cpu' = parse_cpu_to_cores(u_arg)
    /\ UNCHANGED <<u_arg, u_mem, sizingVars, orchVars, extVars>>

ParseMem ==
    /\ u_mem = Pending
    /\ u_mem' = parse_mem_to_gb(u_arg)
    /\ UNCHANGED <<u_arg, u_cpu, sizingVars, orchVars, extVars>>

NextUtils == ParseCpu \/ ParseMem

SpecUtils == InitUtils /\ [][NextUtils]_vars

(***************************************************************************)
(* backend/ai_provider.py: the three providers and their retry loop.       *)
(* OllamaProvider.ask, OpenAIProvider.ask and AnthropicProvider.ask carry  *)
(* the same loop; they differ in the URL they post to, hence in the shape  *)
(* of the reply, and in whether the constructor demands an API key.        *)
(***************************************************************************)
Providers == {"ollama", "openai", "anthropic"}

\* only the OpenAI constructor checks its key
NeedsApiKey_OpenAIOnly(provider) == provider = "openai"

\* OpenAIProvider.__init__ / AnthropicProvider.__init__ raise without a key
NeedsApiKey(provider) == provider \in {"openai", "anthropic"}

\* What requests.post / raise_for_status / response.json can raise
Failures == {"ConnectionError", "HTTPError", "Timeout"}

\* The six keys the prompt asks the model to answer with
Fields == {"explanation", "recommended_cpu", "recommended_memory",
           "estimated_savings", "risk_level", "next_step"}

\* The answer the model gives for each key it answers
AiValues ==
    [explanation |-> <<"ai">>, recommended_cpu |-> Frac(3, 4),
     recommended_memory |-> RInt(1), estimated_savings |-> RInt(10),
     risk_level |-> "low", next_step |-> "ai"]

\* The text the model produces: not JSON at all, or a JSON object with all,
\* some or none of the six keys.
ReplyTexts ==
    {<<"malformed">>} \cup
    {<<"object", K>> : K \in {Fields, Fields \ {"next_step"}, {"explanation"}, {}}}

NoText == <<"none">>
NoError == <<"", 0>>

\* The top-level key under which each service returns the model's text:
\* /api/generate answers {"response": text, ...}, /v1/chat/completions
\* answers {"choices": [...]}, /v1/messages answers {"content": [...]}.
PayloadKey(provider) ==
    CASE provider = "ollama" -> "response"
      [] provider = "openai" -> "choices"
      [] provider = "anthropic" -> "content"

\* response.json() of a 2xx reply: a dict, seen through its top-level keys,
\* with the model's text or (an incomplete reply) without it.
Bodies(provider) ==
    {[keys |-> {PayloadKey(provider)}, error |-> NoError, text |-> x] : x \in ReplyTexts}
    \cup {[keys |-> {}, error |-> NoError, text |-> NoText]}

\* last_exception = Exception("Unknown error")
UnknownError == <<"Exception", 0>>

\* last_exception kept although a later attempt failed
RecordException_KeepFirst(prev, e) == IF prev = UnknownError THEN e ELSE prev

\* last_exception = e
RecordException(prev, e) == e

\* range(self.retries) entered one time more
MoreAttempts_OneExtra(attempt, retries) == attempt < retries + 1

\* for attempt in range(self.retries)
MoreAttempts(attempt, retries) == attempt < retries

\* if attempt < self.retries - 1
SleepsAfter(attempt, retries) == attempt < retries - 1

\* twice the attempt number instead of the power
Backoff_Linear(attempt) == 2 * attempt

\* 2 ** attempt, the part of sleep_time that is not the jitter
Backoff(attempt) == Pow2(attempt)

(***************************************************************************)
(* backend/ai_advisor.py: call_ai_model and generate_recommendation        *)
(***************************************************************************)
\* call_ai_model's except branch
FallbackDict(e) ==
    [keys |-> {"status", "error", "fallback_used"}, error |-> e, text |-> NoText]

ManualReview == "Manually review resource usage patterns"
FixIntegration == "Fix AI integration"

Heuristic(rs, explanation, risk, next) ==
    [explanation |-> explanation,
     recommended_cpu |-> rs.suggested_cpu,
     recommended_memory |-> rs.suggested_mem_gb,
     estimated_savings |-> rs.monthly_saving_usd,
     risk_level |-> risk,
     next_step |-> next]

\* generate_recommendation calls compute_rightsizing(workload_data) in each
\* of its fallback returns and again in its exception handler; the function
\* is pure, so every call of one run has the same outcome rs.

\* the handler `except Exception as e` of generate_recommendation; an
\* exception of the compute_rightsizing call made there leaves the function
ExceptBranch(rs, e) ==
    IF rs[1] = "ok"
    THEN <<"return", Heuristic(rs[2], <<"Error", e>>, "high", FixIntegration)>>
    ELSE <<"raise", rs[2]>>

\* one of the three fallback returns inside the try block; an exception of
\* compute_rightsizing there is caught by the handler
FallbackBranch(rs, explanation) ==
    IF rs[1] = "ok"
    THEN <<"return", Heuristic(rs[2], explanation, "medium", ManualReview)>>
    ELSE ExceptBranch(rs, rs[2])

\* json.loads(result["response"])
JsonLoads(text) ==
    IF text[1] = "object"
    THEN <<"ok", [f \in text[2] |-> AiValues[f]]>>
    ELSE <<"raise", "JSONDecodeError">>

\* generate_recommendation from the return of call_ai_model on
Recommend(rs, response_data) ==
    IF "fallback_used" \in response_data.keys
    THEN FallbackBranch(rs, <<"AI analysis unavailable">>)
    ELSE IF "status" \in response_data.keys
    THEN FallbackBranch(rs, <<"AI analysis unavailable", response_data.error[1]>>)
    ELSE IF "response" \in response_data.keys
    THEN LET recommendation == JsonLoads(response_data.text)
         IN  IF recommendation[1] = "ok"
             THEN <<"return", recommendation[2]>>
             ELSE ExceptBranch(rs, recommendation[2])
    ELSE FallbackBranch(rs, <<"AI analysis unavailable">>)

\* The samples the orchestrator is run on: requested quantities as numbers,
\* as quantity strings and as text that is no quantity.
OrchSamples ==
    [cpu_requested : {<<"num", RInt(2)>>, <<"str", <<"x">>>>},
     memory_requested : {<<"num", RInt(2)>>, <<"str", <<"2", "G", "i">>>>},
     cpu_used : {<<"num", RInt(0)>>, <<"num", Frac(1, 2)>>},
     memory_used : {<<"num", Frac(1, 2)>>, <<"num", RInt(1)>>}]

Init ==
    /\ g_sample \in OrchSamples
    /\ g_provider \in Providers
    /\ g_api_key \in (IF NeedsApiKey(g_provider) THEN BOOLEAN ELSE {FALSE})
    /\ g_retries \in 0..MaxRetries
    /\ g_pc = "start"
    /\ g_attempt = 0
    /\ g_last_exception = UnknownError
    /\ g_requests = <<>>
    /\ g_sleeps = <<>>
    /\ g_ask = Pending
    /\ g_response_data = Pending
    /\ g_result = Pending
    /\ UtilsIdle
    /\ SizingIdle
    /\ ExtIdle

\* generate_recommendation up to get_ai_provider(): the constructor of a
\* provider that needs a key raises ValueError without one, which
\* call_ai_model turns into the fallback dict.
Construct ==
    /\ g_pc = "start"
    /\ IF NeedsApiKey(g_provider) /\ ~g_api_key
       THEN /\ g_response_data' = FallbackDict(<<"ValueError", 0>>)
            /\ g_pc' = "respond"
       ELSE /\ g_pc' = "ask"
            /\ UNCHANGED g_response_data
    /\ UNCHANGED <<envVars, g_attempt, g_last_exception, g_requests, g_sleeps,
                   g_ask, g_result, utilsVars, sizingVars, extVars>>

\* one pass of the loop whose request is answered: ask returns the decoded
\* reply, and call_ai_model returns it unchanged
RequestOk ==
    /\ g_pc = "ask"
    /\ MoreAttempts(g_attempt, g_retries)
    /\ \E body \in Bodies(g_provider) :
         /\ g_requests' = Append(g_requests, <<"ok", body>>)
         /\ g_ask' = <<"ok", body>>
         /\ g_response_data' = body
    /\ g_pc' = "respond"
    /\ UNCHANGED <<envVars, g_attempt, g_last_exception, g_sleeps, g_result,
                   utilsVars, sizingVars, extVars>>

\* one pass of the loop whose request fails, up to the sleep if there is one
RequestFail ==
    /\ g_pc = "ask"
    /\ MoreAttempts(g_attempt, g_retries)
    /\ \E kind \in Failures :
         /\ g_requests' = Append(g_requests, <<"fail", kind>>)
         /\ g_last_exception' =
                RecordException(g_last_exception, <<kind, Len(g_requests) + 1>>)
    /\ IF SleepsAfter(g_attempt, g_retries)
       THEN g_pc' = "sleep" /\ UNCHANGED g_attempt
       ELSE g_pc' = "ask" /\ g_attempt' = g_attempt + 1
    /\ UNCHANGED <<envVars, g_sleeps, g_ask, g_response_data, g_result,
                   utilsVars, sizingVars, extVars>>

\* time.sleep((2 ** attempt) + random.uniform(0, 1)) and the loop's step
Sleep ==
    /\ g_pc = "sleep"
    /\ g_sleeps' = Append(g_sleeps, Backoff(g_attempt))
    /\ g_attempt' = g_attempt + 1
    /\ g_pc' = "ask"
    /\ UNCHANGED <<envVars, g_last_exception, g_requests, g_ask,
                   g_response_data, g_result, utilsVars, sizingVars, extVars>>

\* the loop is over: raise last_exception, which call_ai_model turns into
\* the fallback dict
Exhausted ==
    /\ g_pc = "ask"
    /\ ~MoreAttempts(g_attempt, g_retries)
    /\ g_ask' = <<"raise", g_last_exception>>
    /\ g_response_data' = FallbackDict(g_last_exception)
    /\ g_pc' = "respond"
    /\ UNCHANGED <<envVars, g_attempt, g_last_exception, g_requests, g_sleeps,
                   g_result, utilsVars, sizingVars, extVars>>

\* generate_recommendation from the return of call_ai_model to its own end
Respond ==
    /\ g_pc = "respond"
    /\ \E rs \in {compute_rightsizing(g_sample)} :
         g_result' = Recommend(rs, g_response_data)
    /\ g_pc' = "done"
    /\ UNCHANGED <<envVars, g_attempt, g_last_exception, g_requests, g_sleeps,
                   g_ask, g_response_data, utilsVars, sizingVars, extVars>>

Next == Construct \/ RequestOk \/ RequestFail \/ Sleep \/ Exhausted \/ Respond

Spec == Init /\ [][Next]_vars

(***************************************************************************)
(* Properties of the orchestrator and the providers (Spec).                *)
(***************************************************************************)
Done == g_pc = "done"

Returned == Done /\ g_result[1] = "return"

NRequests == Len(g_requests)

\* every request sent has failed, and ask has given up
AllRequestsFailed ==
    /\ g_ask[1] = "raise"
    /\ NRequests = g_retries
    /\ \A i \in 1..NRequests : g_requests[i][1] = "fail"

\* the last request sent was answered with a decoded reply
Answered == NRequests > 0 /\ g_requests[NRequests][1] = "ok"

LastBody == g_requests[NRequests][2]

\* the reply carries the model's text under its provider's key
HasPayload == Answered /\ PayloadKey(g_provider) \in LastBody.keys

\* the model's text is an object with all six keys
WellFormedPayload == HasPayload /\ LastBody.text = <<"object", Fields>>

NumericFields == {"recommended_cpu", "recommended_memory", "estimated_savings"}

\* the numeric fields compute_rightsizing gives for the sample
EstimatorNumbers(rs) ==
    [recommended_cpu |-> rs.suggested_cpu,
     recommended_memory |-> rs.suggested_mem_gb,
     estimated_savings |-> rs.monthly_saving_usd]

\* rec carries the three numeric fields with the estimator's values
HasEstimatorNumbers(rec) ==
    LET rs == compute_rightsizing(g_sample)
    IN  /\ rs[1] = "ok"
        /\ NumericFields \subseteq DOMAIN rec
        /\ \A f \in NumericFields : rec[f] = EstimatorNumbers(rs[2])[f]

\* C1: generate_recommendation never raises: every call ends by returning
\* a Recommendation that carries all six fields.
C1_AlwaysWellFormed ==
    Done => (g_result[1] = "return" /\ Fields \subseteq DOMAIN g_result[2])

\* C2: when all N requests of the backend fail, the Recommendation returned
\* has provenance "fallback" and the numeric fields of compute_rightsizing.
C2_FallbackAfterFailures ==
    (Done /\ AllRequestsFailed) =>
        /\ g_result[1] = "return"
        /\ "provenance" \in DOMAIN g_result[2]
        /\ g_result[2]["provenance"] = "fallback"
        /\ HasEstimatorNumbers(g_result[2])

\* C3: every Recommendation returned has the six fields and a provenance
\* tag, and for a parsed reply of the backend the tag is "ai".
C3_OneShape ==
    Returned =>
        /\ DOMAIN g_result[2] = Fields \cup {"provenance"}
        /\ (HasPayload /\ LastBody.text[1] = "object") =>
               g_result[2]["provenance"] = "ai"

\* what generate_recommendation gives after a failed backend call
AfterFailure ==
    Recommend(compute_rightsizing(g_sample), FallbackDict(<<"HTTPError", 1>>))

SameButExplanation(a, b) ==
    /\ a[1] = b[1]
    /\ a[1] = "return" =>
          /\ DOMAIN a[2] = DOMAIN b[2]
          /\ \A f \in DOMAIN a[2] \ {"explanation"} : a[2][f] = b[2][f]

\* C4: a reply that cannot be parsed into the six fields (malformed text, or
\* an object with fields missing) is handled as a backend failure is: same
\* numeric fields, same risk level, same next step.
C4_UnparseableAsFailure ==
    (Done /\ HasPayload /\ LastBody.text # <<"object", Fields>>) =>
        SameButExplanation(g_result, AfterFailure)

\* C5: ask sends at most N requests, none after an answered one, returns
\* the answer of the answered request, and when all have failed raises the
\* failure of the last request.
C5_BoundedRetry ==
    /\ g_requests # Idle =>
          /\ NRequests <= g_retries
          /\ \A i \in 1..(NRequests - 1) : g_requests[i][1] = "fail"
    /\ g_ask[1] = "ok" => (Answered /\ g_ask[2] = LastBody)
    /\ (g_ask[1] = "raise" /\ NRequests > 0) =>
          /\ NRequests = g_retries
          /\ g_requests[NRequests][1] = "fail"
          /\ g_ask[2] = <<g_requests[NRequests][2], NRequests>>

C5_Witness ==
    /\ g_provider = "anthropic"
    /\ g_retries = 3
    /\ g_ask = <<"raise", <<"HTTPError", 3>>>>
    /\ g_requests = <<<<"fail", "Timeout">>, <<"fail", "ConnectionError">>,
                      <<"fail", "HTTPError">>>>

\* C6: a call in which a request times out and none is answered ends in the
\* fallback Recommendation, as for any other failure, not in an exception.
C6_TimeoutEndsInFallback ==
    (Done /\ AllRequestsFailed
          /\ \E i \in 1..NRequests : g_requests[i] = <<"fail", "Timeout">>) =>
        /\ g_result[1] = "return"
        /\ g_result[2]["risk_level"] = "medium"
        /\ HasEstimatorNumbers(g_result[2])

\* C7: whichever provider is configured, an answered request whose reply
\* carries a well-formed payload makes generate_recommendation return the
\* AI-derived recommendation.
C7_ProvidersInterchangeable ==
    (Done /\ WellFormedPayload) => g_result = <<"return", AiValues>>

(***************************************************************************)
(* Properties of the converters (SpecUtils).                               *)
(***************************************************************************)
Zero == <<"ok", RInt(0)>>

\* "" and text that is no quantity ("invalid" in tests.py)
NoQuantity == {<<"str", <<>>>>, <<"str", <<"x">>>>, <<"str", <<"x", "x">>>>}

\* C8: parse_cpu_to_cores and parse_mem_to_gb are total: neither ever raises,
\* and for an empty or unparseable string each returns 0.0.
C8_ConvertersTotal ==
    /\ u_cpu[1] # "raise"
    /\ u_mem[1] # "raise"
    /\ u_arg \in NoQuantity =>
          /\ u_cpu # Pending => u_cpu = Zero
          /\ u_mem # Pending => u_mem = Zero

IsNumber(s) == s # <<>> /\ \A k \in 1..Len(s) : s[k] \in Digits

BinarySuffixes == {<<"K", "i">>, <<"M", "i">>, <<"G", "i">>}
DecimalSuffixes == {<<"K">>, <<"M">>, <<"G">>}

\* C9: parse_mem_to_gb accepts all six suffixes, gives a positive number a
\* different value under a decimal suffix (K, M, G) than under the binary
\* suffix of the same letter (Ki, Mi, Gi), and reads a bare number as bytes.
C9_SuffixesDistinguished ==
    (u_arg[1] = "str" /\ u_mem # Pending) =>
        LET s == u_arg[2] IN
        /\ \A suf \in BinarySuffixes \cup DecimalSuffixes :
              (EndsWith(s, suf) /\ IsNumber(DropLast(s, Len(suf)))) =>
                  u_mem[1] = "ok"
        /\ \A suf \in DecimalSuffixes :
              (EndsWith(s, suf) /\ IsNumber(DropLast(s, 1))
                 /\ DecimalVal(DropLast(s, 1)) > 0) =>
                  u_mem # parse_mem_to_gb(<<"str", s \o <<"i">>>>)
        /\ IsNumber(s) => u_mem = <<"ok", RDiv(RInt(DecimalVal(s)), Gibi)>>

(***************************************************************************)
(* Properties of the estimator (SpecSizing).                               *)
(***************************************************************************)
\* C10: whenever compute_rightsizing returns, also for zero or negative
\* usage, the suggested CPU and the suggested memory are both at least 0.001.
C10_SuggestedAtLeastFloor ==
    r_out[1] = "ok" =>
        /\ RLeq(Frac(1, 1000), r_out[2].suggested_cpu)
        /\ RLeq(Frac(1, 1000), r_out[2].suggested_mem_gb)

C10_Witness ==
    /\ r_out[1] = "ok"
    /\ r_sample.cpu_used = <<"num", Frac(-1, 4)>>
    /\ r_sample.memory_used = <<"num", RInt(0)>>
    /\ r_out[2].suggested_cpu = Frac(1, 1000)
    /\ r_out[2].suggested_mem_gb = Frac(1, 1000)

\* the requested quantities of the sample, in cores and in GB
CpuRequested ==
    parse_cpu_to_cores(DictGet(r_sample.cpu_requested, <<"str", <<"0">>>>))[2]
MemRequested ==
    parse_mem_to_gb(DictGet(r_sample.memory_requested, <<"str", <<"0">>>>))[2]

\* a suggestion below 85% of its request
BelowThreshold(req, suggested) == RLess(suggested, RMul(req, Frac(85, 100)))

\* max(0, requested - suggested) when below the threshold, 0 otherwise
CountedReduction(req, suggested) ==
    IF BelowThreshold(req, suggested)
    THEN RMax(RInt(0), RSub(req, suggested)) ELSE RInt(0)

\* the second call has returned
SecondCallDone == r_prev[1] = "call" /\ r_out # Pending

\* both calls returned a suggestion
BothOk == SecondCallDone /\ r_prev[3][1] = "ok" /\ r_out[1] = "ok"

C11_MonthlySaving ==
    r_out[1] = "ok" =>
        LET out == r_out[2]
            cpu == CountedReduction(CpuRequested, out.suggested_cpu)
            mem == CountedReduction(MemRequested, out.suggested_mem_gb)
        IN  /\ out.monthly_saving_usd =
                  RMul(RAdd(RMul(cpu, Frac(2, 100)), RMul(mem, Frac(5, 1000))),
                       RInt(720))
            /\ RLeq(RInt(0), out.monthly_saving_usd)
            /\ RLess(RInt(0), out.monthly_saving_usd) <=>
                  \/ BelowThreshold(CpuRequested, out.suggested_cpu)
                  \/ BelowThreshold(MemRequested, out.suggested_mem_gb)

\* 2 cores and 2Gi requested, 0.5 cores and 1.0 GB used: both resources
\* are reduced, (1.375 * 0.02 + 0.75 * 0.005) * 720 = 22.5
C11_Witness ==
    /\ r_sample = [cpu_requested |-> <<"str", <<"2">>>>,
                   memory_requested |-> <<"str", <<"2", "G", "i">>>>,
                   cpu_used |-> <<"num", Frac(1, 2)>>,
                   memory_used |-> <<"num", RInt(1)>>]
    /\ r_out[1] = "ok"
    /\ r_out[2].monthly_saving_usd = Frac(45, 2)

(***************************************************************************)
(* YAML documents.  A parsed document is a tree of tagged values:          *)
(* <<"map", f>> with f a function on key strings, <<"list", seq>>,         *)
(* <<"str", chars>> and <<"null">>.  A text is <<"yaml", doc>>, the        *)
(* serialization of doc (key order, quoting and comments apart), or        *)
(* Garbage, a text that is not YAML.                                       *)
(***************************************************************************)
Null == <<"null">>

EmptyMap == <<"map", [k \in {} |-> Null]>>

EmptyList == <<"list", <<>>>>

PyStr(chars) == <<"str", chars>>

IsMap(v) == v[1] = "map"

Has(d, key) == key \in DOMAIN d[2]

\* d.get(key, default) of a dict d
PyDictGet(d, key, default) == IF Has(d, key) THEN d[2][key] ELSE default

\* d[key] = value
PyDictSet(d, key, value) ==
    <<"map", [j \in DOMAIN d[2] \cup {key} |->
                 IF j = key THEN value ELSE d[2][j]]>>

\* d.setdefault(key, default): d afterwards
SetDefault(d, key, default) ==
    IF Has(d, key) THEN d ELSE PyDictSet(d, key, default)

\* bool(v)
Truthy(v) == v \notin {Null, EmptyMap, EmptyList, PyStr(<<>>)}

Garbage == <<"garbage">>

\* yaml.safe_load
safe_load(text) ==
    IF text = Garbage THEN <<"raise", "YAMLError">> ELSE <<"ok", text[2]>>

\* yaml.safe_dump
safe_dump(doc) == <<"yaml", doc>>

(***************************************************************************)
(* Integers in text: f"{n}", int(s), s.rstrip(chars), and the float -> int *)
(* conversions int(x) and round(x).                                        *)
(***************************************************************************)
DecDigits == <<"0", "1", "2", "3", "4", "5", "6", "7", "8", "9">>

\* f"{n}" of an int n >= 0
RECURSIVE IntToStr(_)
IntToStr(n) ==
    IF n < 10 THEN <<DecDigits[n + 1]>>
    ELSE IntToStr(n \div 10) \o <<DecDigits[(n % 10) + 1]>>

DecDigitVal(c) == CHOOSE v \in 0..9 : DecDigits[v + 1] = c

IsDecDigit(c) == \E v \in 1..10 : DecDigits[v] = c

RECURSIVE DecVal(_)
DecVal(s) ==
    IF s = <<>> THEN 0
    ELSE 10 * DecVal(SubSeq(s, 1, Len(s) - 1)) + DecDigitVal(s[Len(s)])

\* int(s) of a str: the digits, or ValueError
PyIntOfStr(s) ==
    IF s # <<>> /\ \A k \in 1..Len(s) : IsDecDigit(s[k])
    THEN <<"ok", DecVal(s)>> ELSE <<"raise", "ValueError">>

\* s.rstrip(chars)
RECURSIVE RStripChars(_, _)
RStripChars(s, chars) ==
    IF s # <<>> /\ s[Len(s)] \in chars
    THEN RStripChars(SubSeq(s, 1, Len(s) - 1), chars) ELSE s

\* int(x) of a float: towards zero
PyInt(x) ==
    LET den == x[2] * Pow2(x[3])
    IN  IF x[1] >= 0 THEN x[1] \div den ELSE 0 - ((0 - x[1]) \div den)

(***************************************************************************)
(* backend/ai_advisor.py: generate_strategic_merge_patch.                  *)
(* Any exception inside its try block ends in the except branch, so the    *)
(* operators below give <<"raise", e>> and the function turns that into    *)
(* the error text.                                                         *)
(***************************************************************************)
\* "# Error generating patch. ...\n" + original_yaml_text
ErrorText(original_yaml_text) == <<"error", original_yaml_text>>

\* the limit written for a request of n >= 0 units: int(n * 1.5)
LimitOf(n) == (3 * n) \div 2

\* requests and limits written into the resources block r1 of c1
WriteResources(c1, r1, res, cpu_millis, memory_mib) ==
    IF ~IsMap(r1[2]["requests"]) THEN <<"raise", "TypeError">>
    ELSE IF cpu_millis[1] = "raise" THEN cpu_millis
    ELSE IF memory_mib[1] = "raise" THEN memory_mib
    ELSE IF ~IsMap(r1[2]["limits"]) THEN <<"raise", "TypeError">>
    ELSE <<"ok",
           PyDictSet(c1, "resources",
             PyDictSet(
               PyDictSet(r1, "requests",
                 PyDictSet(PyDictSet(r1[2]["requests"], "cpu", PyStr(res.cpu)),
                           "memory", PyStr(res.memory))),
               "limits",
               PyDictSet(
                 PyDictSet(r1[2]["limits"], "cpu",
                   PyStr(IntToStr(LimitOf(cpu_millis[2])) \o <<"m">>)),
                 "memory",
                 PyStr(IntToStr(LimitOf(memory_mib[2])) \o <<"M", "i">>))))>>

\* c1 is the container after c.setdefault("resources", {})
PatchResources(c1, res) ==
    IF ~IsMap(c1[2]["resources"]) THEN <<"raise", "AttributeError">>
    ELSE WriteResources(
             c1,
             SetDefault(SetDefault(c1[2]["resources"], "requests", EmptyMap),
                        "limits", EmptyMap),
             res,
             PyIntOfStr(RStripChars(res.cpu, {"m"})),
             PyIntOfStr(RStripChars(res.memory, {"M", "i"})))

\* the body of "if key in suggested_resources" for the container c
PatchContainer(c, res) ==
    PatchResources(SetDefault(c, "resources", EmptyMap), res)

\* the key (workload_name, cname) of the container c, or the raise
KeyOf(c, metadata) ==
    IF ~IsMap(c) \/ ~IsMap(metadata) THEN <<"raise", "AttributeError">>
    ELSE <<"ok", <<PyDictGet(metadata, "name", Null),
                   PyDictGet(c, "name", Null)>>>>

ContainerKey(doc, c) == KeyOf(c, PyDictGet(doc, "metadata", EmptyMap))

\* one pass of the loop body, for the container c with the key
UpdateKeyed(c, key, suggested_resources) ==
    IF key[1] = "raise" THEN key
    ELSE IF key[2] \in DOMAIN suggested_resources
    THEN PatchContainer(c, suggested_resources[key[2]])
    ELSE <<"ok", c>>

\* the outcomes of the loop body, gathered: the first raise ends the loop
Gather(outcomes) ==
    IF \E i \in 1..Len(outcomes) : outcomes[i][1] = "raise"
    THEN outcomes[CHOOSE i \in 1..Len(outcomes) :
                     /\ outcomes[i][1] = "raise"
                     /\ \A j \in 1..(i - 1) : outcomes[j][1] = "ok"]
    ELSE <<"ok", <<"list", [i \in 1..Len(outcomes) |-> outcomes[i][2]]>>>>

\* "for c in containers: ..." for whatever value containers is
UpdateContainers(containers, doc, suggested_resources) ==
    IF containers[1] = "list"
    THEN Gather([i \in 1..Len(containers[2]) |->
                    UpdateKeyed(containers[2][i],
                                ContainerKey(doc, containers[2][i]),
                                suggested_resources)])
    ELSE IF containers \in {EmptyMap, PyStr(<<>>)} THEN <<"ok", containers>>
    ELSE IF containers = Null THEN <<"raise", "TypeError">>
    ELSE <<"raise", "AttributeError">>

\* the document with the updated list under spec.template.spec.containers
IntoTemplate(doc, spec, t1, ts1, upd) ==
    IF upd[1] = "raise" THEN upd
    ELSE <<"ok", PyDictSet(doc, "spec",
                   PyDictSet(spec, "template",
                     PyDictSet(t1, "spec",
                       PyDictSet(ts1, "containers", upd[2]))))>>

\* ts1 is the template's spec after setdefault("containers", [])
ViaTemplateSpec(doc, spec, t1, ts1, suggested_resources) ==
    IntoTemplate(doc, spec, t1, ts1,
                 UpdateContainers(ts1[2]["containers"], doc,
                                  suggested_resources))

\* t1 is the template after setdefault("spec", {})
ViaTemplate(doc, spec, t1, suggested_resources) ==
    IF ~IsMap(t1[2]["spec"]) THEN <<"raise", "AttributeError">>
    ELSE ViaTemplateSpec(doc, spec, t1,
                         SetDefault(t1[2]["spec"], "containers", EmptyList),
                         suggested_resources)

\* the document with the updated list under spec.containers; a document
\* without the key spec keeps the dict made for it to itself
IntoSpec(doc, s1, upd) ==
    IF upd[1] = "raise" THEN upd
    ELSE IF Has(doc, "spec")
    THEN <<"ok", PyDictSet(doc, "spec", PyDictSet(s1, "containers", upd[2]))>>
    ELSE <<"ok", doc>>

\* s1 is spec after setdefault("containers", [])
ViaSpec(doc, s1, suggested_resources) ==
    IntoSpec(doc, s1,
             UpdateContainers(s1[2]["containers"], doc, suggested_resources))

\* "if template: ... else: ..."
ViaContainers(doc, spec, template, suggested_resources) ==
    IF Truthy(template)
    THEN IF ~IsMap(template) THEN <<"raise", "AttributeError">>
         ELSE ViaTemplate(doc, spec, SetDefault(template, "spec", EmptyMap),
                          suggested_resources)
    ELSE ViaSpec(doc, SetDefault(spec, "containers", EmptyList),
                 suggested_resources)

\* spec = doc.get("spec", {}) and what follows it
FromSpec(doc, spec, suggested_resources) ==
    IF ~IsMap(spec) THEN <<"raise", "AttributeError">>
    ELSE ViaContainers(doc, spec, PyDictGet(spec, "template", Null),
                       suggested_resources)

\* the try block after yaml.safe_load: the document to dump, or the raise
MergeInto(doc, suggested_resources) ==
    IF ~IsMap(doc) THEN <<"raise", "AttributeError">>
    ELSE FromSpec(doc, PyDictGet(doc, "spec", EmptyMap), suggested_resources)

\* what is returned for the outcome of the try block
DumpOrError(merged, original_yaml_text) ==
    IF merged[1] = "raise" THEN ErrorText(original_yaml_text)
    ELSE safe_dump(merged[2])

\* what is returned for the outcome of yaml.safe_load
MergeLoaded(doc, original_yaml_text, suggested_resources) ==
    IF doc[1] = "raise" THEN ErrorText(original_yaml_text)
    ELSE DumpOrError(MergeInto(doc[2], suggested_resources),
                     original_yaml_text)

generate_strategic_merge_patch(original_yaml_text, suggested_resources) ==
    MergeLoaded(safe_load(original_yaml_text), original_yaml_text,
                suggested_resources)

(***************************************************************************)
(* The manifests handed to the patch generator.                            *)
(***************************************************************************)
NAME_WEB == <<"w", "e", "b">>
NAME_MAIN == <<"m", "a", "i", "n">>
NAME_SIDE == <<"s", "i", "d", "e">>
IMAGE_NGINX == <<"n", "g", "i", "n", "x">>

Quantity(n, unit) == PyStr(IntToStr(n) \o unit)

MilliCores == <<"m">>
MebiBytes == <<"M", "i">>

\* a container with requests and limits, as in the sample of __main__
ContainerWithResources ==
    <<"map", [name |-> PyStr(NAME_MAIN), image |-> PyStr(IMAGE_NGINX),
              resources |->
                <<"map", [requests |->
                            <<"map", [cpu |-> Quantity(200, MilliCores),
                                      memory |-> Quantity(256, MebiBytes)]>>,
                          limits |->
                            <<"map", [cpu |-> Quantity(500, MilliCores)]>>]>>]>>

Containers ==
    {<<"map", [name |-> PyStr(NAME_MAIN), image |-> PyStr(IMAGE_NGINX)]>>,
     ContainerWithResources,
     <<"map", [name |-> PyStr(NAME_SIDE), image |-> PyStr(IMAGE_NGINX),
               resources |-> <<"map", [requests |-> Null]>>]>>,
     <<"map", [image |-> PyStr(IMAGE_NGINX)]>>,
     <<"map", [name |-> PyStr(NAME_MAIN), resources |-> Null]>>,
     PyStr(NAME_MAIN)}

ContainerLists ==
    {<<"list", cs>> : cs \in UNION {[1..n -> Containers] : n \in 0..MaxContainers}}

Labels == <<"map", [labels |-> <<"map", [app |-> PyStr(NAME_WEB)]>>]>>

\* spec of a Pod
PodSpec(containers) == <<"map", [containers |-> containers]>>

\* spec of a Deployment, StatefulSet, DaemonSet or Job
TemplateSpec(containers) ==
    <<"map", [replicas |-> PyStr(<<"3">>),
              template |-> <<"map", [metadata |-> Labels,
                                     spec |-> PodSpec(containers)]>>]>>

\* specs without a list of containers where the function looks for one
OtherSpecs ==
    {Null,
     <<"map", [schedule |-> PyStr(<<"0">>),
               jobTemplate |-> TemplateSpec(EmptyList)]>>,
     <<"map", [replicas |-> PyStr(<<"3">>), template |-> EmptyMap]>>,
     <<"map", [template |-> <<"map", [metadata |-> Labels]>>]>>,
     <<"map", [template |-> <<"map", [spec |-> EmptyMap]>>]>>,
     <<"map", [template |-> <<"map", [spec |-> Null]>>]>>,
     <<"map", [template |-> PyStr(NAME_WEB)]>>,
     PodSpec(Null),
     TemplateSpec(Null)}

Specs ==
    {PodSpec(cs) : cs \in ContainerLists}
    \cup {TemplateSpec(cs) : cs \in ContainerLists}
    \cup OtherSpecs

Metadatas ==
    {<<"map", [name |-> PyStr(NAME_WEB)]>>, Labels, Null}

Documents ==
    {<<"map", [kind |-> PyStr(<<"K">>), metadata |-> m, spec |-> sp]>> :
        m \in Metadatas, sp \in Specs}
    \cup {<<"map", [kind |-> PyStr(<<"K">>), spec |-> sp]>> : sp \in Specs}
    \cup {<<"map", [kind |-> PyStr(<<"K">>),
                    metadata |-> <<"map", [name |-> PyStr(NAME_WEB)]>>]>>,
          Null, EmptyList}

Texts == {safe_dump(doc) : doc \in Documents} \cup {Garbage}

\* {"cpu": "375m", "memory": "1536Mi"}, as in the sample of __main__
Resources375 ==
    [cpu |-> IntToStr(375) \o MilliCores, memory |-> IntToStr(1536) \o MebiBytes]

\* a suggestion whose cpu is not in milli-cores
ResourcesCores == [cpu |-> <<"0", ".", "5">>, memory |-> <<"1", "G", "i">>]

KeyMain == <<PyStr(NAME_WEB), PyStr(NAME_MAIN)>>
KeySide == <<PyStr(NAME_WEB), PyStr(NAME_SIDE)>>
KeyOther == <<PyStr(NAME_MAIN), PyStr(NAME_MAIN)>>

NoSuggestion == [k \in {} |-> Resources375]

SuggestedResources ==
    {NoSuggestion,
     [k \in {KeyMain} |-> Resources375],
     [k \in {KeySide} |-> Resources375],
     [k \in {KeyMain, KeySide} |-> Resources375],
     [k \in {KeyOther} |-> Resources375],
     [k \in {KeyMain} |-> ResourcesCores]}

othersOfMerge ==
    <<utilsVars, sizingVars, orchVars, patchVars, securityVars, laterVars>>

InitMerge ==
    /\ m_text \in Texts
    /\ m_suggested \in SuggestedResources
    /\ m_out = Pending
    /\ LaterIdle
    /\ UtilsIdle
    /\ SizingIdle
    /\ OrchIdle
    /\ PatchIdle
    /\ SecurityIdle

GenerateStrategicMergePatch ==
    /\ m_out = Pending
    /\ \E out \in {generate_strategic_merge_patch(m_text, m_suggested)} :
          m_out' = out
    /\ UNCHANGED <<m_text, m_suggested, othersOfMerge>>

NextMerge == GenerateStrategicMergePatch

SpecMerge == InitMerge /\ [][NextMerge]_vars

(***************************************************************************)
(* Properties of generate_strategic_merge_patch (SpecMerge).               *)
(***************************************************************************)
\* the function has returned a document, not the error text
MergeEmitted == m_out[1] = "yaml"

\* metadata.name of the document doc
WorkloadNameOf(doc) ==
    IF IsMap(doc) /\ Has(doc, "metadata") /\ IsMap(doc[2]["metadata"])
    THEN PyDictGet(doc[2]["metadata"], "name", Null) ELSE Null

\* the list item c is a container the suggestion map names
IsSuggested(c, workload_name) ==
    IsMap(c) /\ <<workload_name, PyDictGet(c, "name", Null)>> \in DOMAIN m_suggested

\* d without the key
Without(d, key) == <<"map", [j \in DOMAIN d[2] \ {key} |-> d[2][j]]>>

\* a container without the requests and the limits of its resources block
WithoutRequestsAndLimits(c) ==
    IF Has(c, "resources") /\ IsMap(c[2]["resources"])
    THEN LET rest == Without(Without(c[2]["resources"], "requests"), "limits")
         IN  IF rest = EmptyMap THEN Without(c, "resources")
             ELSE PyDictSet(c, "resources", rest)
    ELSE c

\* the value v with requests and limits taken out of every suggested
\* container of every list of containers in it
RECURSIVE Frame(_, _)
Frame(v, workload_name) ==
    IF v[1] = "map"
    THEN <<"map", [k \in DOMAIN v[2] |->
            IF k = "containers" /\ v[2][k][1] = "list"
            THEN <<"list", [i \in 1..Len(v[2][k][2]) |->
                    LET c == v[2][k][2][i]
                    IN  IF IsSuggested(c, workload_name)
                        THEN WithoutRequestsAndLimits(c)
                        ELSE Frame(c, workload_name)]>>
            ELSE Frame(v[2][k], workload_name)]>>
    ELSE IF v[1] = "list"
    THEN <<"list", [i \in 1..Len(v[2]) |-> Frame(v[2][i], workload_name)]>>
    ELSE v

\* some container of some list of containers in v is suggested
RECURSIVE AnySuggested(_, _)
AnySuggested(v, workload_name) ==
    IF v[1] = "map"
    THEN \E k \in DOMAIN v[2] :
            \/ /\ k = "containers"
               /\ v[2][k][1] = "list"
               /\ \E i \in 1..Len(v[2][k][2]) :
                     IsSuggested(v[2][k][2][i], workload_name)
            \/ AnySuggested(v[2][k], workload_name)
    ELSE IF v[1] = "list"
    THEN \E i \in 1..Len(v[2]) : AnySuggested(v[2][i], workload_name)
    ELSE FALSE

\* C13: the document generate_strategic_merge_patch emits differs from the
\* input document in nothing but resources.requests and resources.limits of
\* the containers whose (workload name, container name) is a key of the
\* suggestion map; when no container is such a key, the two documents are
\* the same, with no key added and none removed.
C13_OnlyRequestsAndLimits ==
    MergeEmitted =>
        LET doc == m_text[2]
            name == WorkloadNameOf(doc)
        IN  /\ Frame(m_out[2], name) = Frame(doc, name)
            /\ ~AnySuggested(doc, name) => m_out[2] = doc

(***************************************************************************)
(* backend/ai_advisor.py: generate_yaml_patch_for_workload (the standalone *)
(* template) and generate_yaml_patch.  The template text is determined by  *)
(* the values put into its placeholders, which stand for it here.          *)
(***************************************************************************)
\* int(recommendation[...] * 1000) and int(recommendation[...] * 1024)
MilliCoresOf(cores) == PyInt(RMul(cores, RInt(1000)))
MebiBytesOf(gb) == PyInt(RMul(gb, RInt(Kibi)))

\* int(recommendation[...] * 1.5 * 1000) and int(... * 1.5 * 1024)
MilliCoresLimitOf(cores) == PyInt(RMul(RMul(cores, Frac(3, 2)), RInt(1000)))
MebiBytesLimitOf(gb) == PyInt(RMul(RMul(gb, Frac(3, 2)), RInt(Kibi)))

\* recommendation[...] of both keys, or KeyError
RecommendedResources(recommendation) ==
    IF Absent \in {recommendation.recommended_cpu,
                   recommendation.recommended_memory}
    THEN <<"raise", "KeyError">>
    ELSE <<"ok", [cpu |-> recommendation.recommended_cpu[2],
                  memory |-> recommendation.recommended_memory[2]]>>

\* the template filled in for the recommended resources rec
TemplateFor(workload_data, rec) ==
    IF rec[1] = "raise" THEN rec
    ELSE <<"template",
           [kind |-> workload_data.kind,
            name |-> workload_data.name,
            namespace |-> workload_data.namespace,
            container |-> NAME_MAIN,
            requests |->
              [cpu |-> IntToStr(MilliCoresOf(rec[2].cpu)) \o MilliCores,
               memory |-> IntToStr(MebiBytesOf(rec[2].memory)) \o MebiBytes],
            limits |->
              [cpu |-> IntToStr(MilliCoresLimitOf(rec[2].cpu)) \o MilliCores,
               memory |->
                 IntToStr(MebiBytesLimitOf(rec[2].memory)) \o MebiBytes]]>>

generate_yaml_patch_for_workload(workload_data, recommendation) ==
    TemplateFor(workload_data, RecommendedResources(recommendation))

\* a manifest object yaml.safe_dump has no representer for
Unrepresentable == <<"object">>

\* workload_data.get('container_name', 'main')
ContainerNameOf(workload_data) ==
    DictGet(workload_data.container_name, PyStr(NAME_MAIN))

\* the patch for the manifest, with the one suggestion made of rec
MergeFor(workload_data, rec, workload_manifest) ==
    IF rec[1] = "raise" THEN rec
    ELSE IF workload_manifest = Unrepresentable
    THEN <<"raise", "RepresenterError">>
    ELSE generate_strategic_merge_patch(
             safe_dump(workload_manifest),
             [k \in {<<PyStr(workload_data.name),
                       ContainerNameOf(workload_data)>>} |->
                 [cpu |-> IntToStr(MilliCoresOf(rec[2].cpu)) \o MilliCores,
                  memory |->
                    IntToStr(MebiBytesOf(rec[2].memory)) \o MebiBytes]])

\* the try block of generate_yaml_patch: the text returned, or the raise
\* its except branch catches
MergeMode(workload_data, recommendation, workload_manifest) ==
    MergeFor(workload_data, RecommendedResources(recommendation),
             workload_manifest)

\* what is returned for the outcome of the try block
MergedOrTemplate(merged, workload_data, recommendation) ==
    IF merged[1] = "raise"
    THEN generate_yaml_patch_for_workload(workload_data, recommendation)
    ELSE merged

generate_yaml_patch(workload_data, recommendation, workload_manifest) ==
    IF Truthy(workload_manifest)
    THEN MergedOrTemplate(
             MergeMode(workload_data, recommendation, workload_manifest),
             workload_data, recommendation)
    ELSE generate_yaml_patch_for_workload(workload_data, recommendation)

\* recommended_cpu and recommended_memory: what compute_rightsizing suggests
\* for the usages of UsedNums, 0.0015, or no such key
RecommendedVals ==
    {<<"num", Suggested(u[2])>> : u \in UsedNums}
    \cup {<<"num", Frac(15, 10000)>>, Absent}

Recommendations ==
    [recommended_cpu : RecommendedVals, recommended_memory : RecommendedVals]

KIND_DEPLOYMENT == <<"D", "e", "p", "l", "o", "y", "m", "e", "n", "t">>
NAMESPACE_DEFAULT == <<"d", "e", "f", "a", "u", "l", "t">>

Workloads ==
    [kind : {KIND_DEPLOYMENT}, namespace : {NAMESPACE_DEFAULT},
     name : {NAME_WEB, NAME_SIDE},
     container_name : {Absent, PyStr(NAME_MAIN), PyStr(NAME_SIDE)}]

ManifestOf(spec) ==
    <<"map", [kind |-> PyStr(KIND_DEPLOYMENT),
              metadata |-> <<"map", [name |-> PyStr(NAME_WEB)]>>,
              spec |-> spec]>>

PlainContainer == <<"map", [name |-> PyStr(NAME_MAIN), image |-> PyStr(IMAGE_NGINX)]>>

\* a container the manifest names after its workload
WebContainer == <<"map", [name |-> PyStr(NAME_WEB), image |-> PyStr(IMAGE_NGINX)]>>

BrokenContainer ==
    <<"map", [name |-> PyStr(NAME_SIDE), image |-> PyStr(IMAGE_NGINX),
              resources |-> <<"map", [requests |-> Null]>>]>>

\* None, {}, manifests with and without a list of containers, an object
Manifests ==
    {Null, EmptyMap, Unrepresentable,
     ManifestOf(TemplateSpec(<<"list", <<PlainContainer>>>>)),
     ManifestOf(TemplateSpec(
         <<"list", <<ContainerWithResources, BrokenContainer>>>>)),
     ManifestOf(PodSpec(<<"list", <<PlainContainer>>>>)),
     ManifestOf(TemplateSpec(<<"list", <<WebContainer>>>>)),
     ManifestOf(TemplateSpec(Null)),
     ManifestOf(<<"map", [template |-> <<"map", [spec |-> Null]>>]>>),
     ManifestOf(<<"map", [schedule |-> PyStr(<<"0">>),
                          jobTemplate |-> TemplateSpec(EmptyList)]>>)}

othersOfPatch ==
    <<utilsVars, sizingVars, orchVars, mergeVars, securityVars, laterVars>>

InitPatch ==
    /\ p_workload \in Workloads
    /\ p_rec \in Recommendations
    /\ p_manifest \in Manifests
    /\ p_out = Pending
    /\ LaterIdle
    /\ UtilsIdle
    /\ SizingIdle
    /\ OrchIdle
    /\ MergeIdle
    /\ SecurityIdle

GenerateYamlPatch ==
    /\ p_out = Pending
    /\ \E out \in {generate_yaml_patch(p_workload, p_rec, p_manifest)} :
          p_out' = out
    /\ UNCHANGED <<p_workload, p_rec, p_manifest, othersOfPatch>>

NextPatch == GenerateYamlPatch

SpecPatch == InitPatch /\ [][NextPatch]_vars

(***************************************************************************)
(* Properties of generate_yaml_patch (SpecPatch).                          *)
(***************************************************************************)
\* where the container list of doc is looked for: the value there, [] when
\* the key is absent, Null when the way to it is not made of mappings
ContainerListOf(doc) ==
    IF ~IsMap(doc) THEN Null
    ELSE LET spec == PyDictGet(doc, "spec", EmptyMap)
         IN  IF ~IsMap(spec) THEN Null
             ELSE LET template == PyDictGet(spec, "template", Null)
                  IN  IF ~Truthy(template)
                      THEN PyDictGet(spec, "containers", EmptyList)
                      ELSE IF ~IsMap(template) THEN Null
                      ELSE LET tspec == PyDictGet(template, "spec", EmptyMap)
                           IN  IF ~IsMap(tspec) THEN Null
                               ELSE PyDictGet(tspec, "containers", EmptyList)

\* the manifest can be written as YAML and read down to a container list
Traversable(manifest) ==
    manifest # Unrepresentable /\ ContainerListOf(manifest)[1] = "list"

BothRecommended == RecommendedResources(p_rec)[1] = "ok"

\* C14: when a manifest is supplied and writing it, parsing it or reading it
\* down to the container list fails, generate_yaml_patch returns the
\* standalone template for the workload and the recommended resources, not
\* the original text and not a partly updated document.
C14_DegradesToTemplate ==
    (p_out # Pending /\ BothRecommended /\ Truthy(p_manifest)
        /\ ~Traversable(p_manifest)) =>
        /\ p_out[1] = "template"
        /\ p_out = generate_yaml_patch_for_workload(p_workload, p_rec)

\* round(x) of a float: to the nearest int, a tie to the even one
PyRound(x) ==
    LET den == x[2] * Pow2(x[3])
        lo == x[1] \div den
        twice == 2 * (x[1] % den)
    IN  IF twice < den THEN lo
        ELSE IF twice > den THEN lo + 1
        ELSE IF lo % 2 = 0 THEN lo ELSE lo + 1

\* round(x) followed by the suffix, and the limit for a rounded request n
RoundedQuantity(x, unit) == IntToStr(PyRound(x)) \o unit
RoundedLimit(n, unit) ==
    IntToStr(PyRound(RMul(RInt(n), Frac(3, 2)))) \o unit

\* the requests and limits the one rule gives for the recommendation
OneRule(rec) ==
    LET millis == RMul(rec.cpu, RInt(1000))
        mib == RMul(rec.memory, RInt(1024))
    IN  [requests |-> [cpu |-> RoundedQuantity(millis, <<"m">>),
                       memory |-> RoundedQuantity(mib, <<"M", "i">>)],
         limits |-> [cpu |-> RoundedLimit(PyRound(millis), <<"m">>),
                     memory |-> RoundedLimit(PyRound(mib), <<"M", "i">>)]]

\* requests and limits of a patched container, as the template holds them
NumbersOf(c) ==
    LET requests == c[2]["resources"][2]["requests"][2]
        limits == c[2]["resources"][2]["limits"][2]
    IN  [requests |-> [cpu |-> requests["cpu"][2],
                       memory |-> requests["memory"][2]],
         limits |-> [cpu |-> limits["cpu"][2], memory |-> limits["memory"][2]]]

\* the containers of the emitted document that the recommendation is for
PatchedContainers ==
    LET cs == ContainerListOf(p_out[2])[2]
    IN  {cs[i] : i \in {j \in 1..Len(cs) :
            PyDictGet(cs[j], "name", Null) = ContainerNameOf(p_workload)}}

MergeApplied ==
    /\ p_out[1] = "yaml"
    /\ WorkloadNameOf(p_out[2]) = PyStr(p_workload.name)
    /\ PatchedContainers # {}

\* C15: in template mode and in merge mode the CPU request is
\* round(cores * 1000) milli-cores, the memory request round(gb * 1024) Mi,
\* and each limit round(1.5 * the rounded request); for one recommendation
\* the two modes emit the same requests and the same limits.
C15_OneRoundingRule ==
    LET rec == RecommendedResources(p_rec)[2]
        template == generate_yaml_patch_for_workload(p_workload, p_rec)[2]
    IN  /\ p_out[1] = "template" =>
              /\ p_out[2].requests = OneRule(rec).requests
              /\ p_out[2].limits = OneRule(rec).limits
        /\ MergeApplied =>
              \A c \in PatchedContainers :
                  /\ NumbersOf(c) = OneRule(rec)
                  /\ NumbersOf(c).requests = template.requests
                  /\ NumbersOf(c).limits = template.limits

(***************************************************************************)
(* backend/security.py: analyze_security.  All its checks run inside one   *)
(* try block whose except branch logs and falls through to the return:     *)
(* a check that raises ends the pass, and the list returned holds the      *)
(* recommendations appended before it.  A group of checks gives            *)
(* <<"ok", recommendations>> or <<"raise", recommendations so far>>.       *)
(***************************************************************************)
PyTrue == <<"bool", TRUE>>
PyFalse == <<"bool", FALSE>>

\* the recommendation appended by a check; rule stands for its description
\* and its details, subject for the name they quote
Recommendation(rule, subject, confidence_score, risk_level) ==
    [type |-> "security", rule |-> rule, subject |-> subject,
     estimated_savings_usd |-> 0, estimated_carbon_gco2e |-> 0,
     confidence_score |-> confidence_score, risk_level |-> risk_level]

NoSubject == <<>>

MissingSecurityContext ==
    Recommendation("workload missing securityContext", NoSubject,
                   Frac(9, 10), "medium")
RunAsNonRoot ==
    Recommendation("runAsNonRoot", NoSubject, Frac(8, 10), "medium")
ReadOnlyRootFilesystem ==
    Recommendation("readOnlyRootFilesystem", NoSubject, Frac(7, 10), "low")
ContainerMissingSecurityContext(container_name) ==
    Recommendation("container missing securityContext", container_name,
                   Frac(9, 10), "medium")
DropCapabilities(container_name) ==
    Recommendation("capabilities", container_name, Frac(8, 10), "low")
Privileged(container_name) ==
    Recommendation("privileged", container_name, Frac(95, 100), "high")
MissingLimits_High(container_name) ==
    Recommendation("missing resource limits", container_name,
                   Frac(8, 10), "high")
MissingLimits(container_name) ==
    Recommendation("missing resource limits", container_name,
                   Frac(8, 10), "medium")
HostPath(volume_name) ==
    Recommendation("hostPath", volume_name, Frac(9, 10), "high")

\* <<x>> when the condition holds, else nothing
When(condition, x) == IF condition THEN <<x>> ELSE <<>>

\* the second group of checks runs when the first has not raised
Then(first, second) ==
    IF first[1] = "raise" THEN first ELSE <<second[1], first[2] \o second[2]>>

RECURSIVE Flatten(_)
Flatten(seqs) == IF seqs = <<>> THEN <<>> ELSE Head(seqs) \o Flatten(Tail(seqs))

\* the index of the first outcome that raised, 0 when none did
FirstRaise(outcomes) ==
    IF \E i \in 1..Len(outcomes) : outcomes[i][1] = "raise"
    THEN CHOOSE i \in 1..Len(outcomes) :
            /\ outcomes[i][1] = "raise"
            /\ \A j \in 1..(i - 1) : outcomes[j][1] = "ok"
    ELSE 0

\* a for loop whose body gave the outcomes: it ends at the first raise
Loop(outcomes, first_raise) ==
    IF first_raise = 0
    THEN <<"ok", Flatten([i \in 1..Len(outcomes) |-> outcomes[i][2]])>>
    ELSE <<"raise", Flatten([i \in 1..first_raise |-> outcomes[i][2]])>>

\* "for x in items" over whatever value items is, Body(x, i) for each
ForEach(items, Body(_, _)) ==
    IF items[1] = "list"
    THEN Loop([i \in 1..Len(items[2]) |-> Body(items[2][i], i)],
              FirstRaise([i \in 1..Len(items[2]) |-> Body(items[2][i], i)]))
    ELSE IF items \in {EmptyMap, PyStr(<<>>)} THEN <<"ok", <<>>>>
    ELSE <<"raise", <<>>>>

\* security.py lines 24-66: the securityContext of the pod
PodChecks(template_spec) ==
    IF template_spec[1] = "list" THEN <<"raise", <<MissingSecurityContext>>>>
    ELSE IF ~IsMap(template_spec) THEN <<"raise", <<>>>>
    ELSE IF ~Has(template_spec, "securityContext")
    THEN <<"ok", <<MissingSecurityContext>>>>
    ELSE IF ~IsMap(template_spec[2]["securityContext"])
    THEN <<"raise", <<>>>>
    ELSE <<"ok",
           When(PyDictGet(template_spec[2]["securityContext"],
                          "runAsNonRoot", Null) # PyTrue, RunAsNonRoot)
           \o When(PyDictGet(template_spec[2]["securityContext"],
                             "readOnlyRootFilesystem", Null) # PyTrue,
                   ReadOnlyRootFilesystem)>>

\* f"container-{i}" of enumerate, which counts from 0
DefaultContainerName(i) ==
    PyStr(<<"c", "o", "n", "t", "a", "i", "n", "e", "r", "-">>
          \o IntToStr(i - 1))

\* container.get("name", f"container-{i}")
ContainerName(container, i) ==
    PyDictGet(container, "name", DefaultContainerName(i))[2]

\* security.py lines 70-115: the securityContext of one container
ContainerCheck(container, i) ==
    IF ~IsMap(container) THEN <<"raise", <<>>>>
    ELSE IF ~Has(container, "securityContext")
    THEN <<"ok", <<ContainerMissingSecurityContext(ContainerName(container, i))>>>>
    ELSE IF container[2]["securityContext"] = Null THEN <<"raise", <<>>>>
    ELSE IF ~IsMap(container[2]["securityContext"])
    THEN <<"raise", <<DropCapabilities(ContainerName(container, i))>>>>
    ELSE <<"ok",
           When(~Has(container[2]["securityContext"], "capabilities"),
                DropCapabilities(ContainerName(container, i)))
           \o When(PyDictGet(container[2]["securityContext"], "privileged",
                             Null) = PyTrue,
                   Privileged(ContainerName(container, i)))>>

\* security.py lines 118-146: the resources of one container
LimitsCheck(container, i) ==
    IF ~IsMap(container) THEN <<"raise", <<>>>>
    ELSE IF ~Has(container, "resources")
    THEN <<"ok", <<MissingLimits(ContainerName(container, i))>>>>
    ELSE IF container[2]["resources"] = Null THEN <<"raise", <<>>>>
    ELSE <<"ok",
           When(~(IsMap(container[2]["resources"])
                    /\ Has(container[2]["resources"], "limits")),
                MissingLimits(ContainerName(container, i)))>>

\* security.py lines 150-163: one volume
VolumeCheck(volume, i) ==
    IF volume = Null THEN <<"raise", <<>>>>
    ELSE IF IsMap(volume) /\ Has(volume, "hostPath")
    THEN <<"ok", <<HostPath(PyDictGet(volume, "name",
                       PyStr(<<"u", "n", "k", "n", "o", "w", "n">>))[2])>>>>
    ELSE <<"ok", <<>>>>

\* the checks in their order, on the pod's spec
AllChecks(template_spec) ==
    Then(Then(Then(PodChecks(template_spec),
                   ForEach(PyDictGet(template_spec, "containers", EmptyList),
                           ContainerCheck)),
              ForEach(PyDictGet(template_spec, "containers", EmptyList),
                      LimitsCheck)),
         ForEach(PyDictGet(template_spec, "volumes", EmptyList), VolumeCheck))

\* template_spec = template.get("spec", {}) if template else spec
TemplateSpecOf(spec, template) ==
    IF ~Truthy(template) THEN <<"ok", spec>>
    ELSE IF ~IsMap(template) THEN <<"raise", "AttributeError">>
    ELSE <<"ok", PyDictGet(template, "spec", EmptyMap)>>

ChecksOn(template_spec) ==
    IF template_spec[1] = "raise" THEN <<>> ELSE AllChecks(template_spec[2])[2]

ChecksOnSpec(spec) ==
    IF ~IsMap(spec) THEN <<>>
    ELSE ChecksOn(TemplateSpecOf(spec, PyDictGet(spec, "template", EmptyMap)))

analyze_security(workload_data) ==
    IF ~IsMap(workload_data) THEN <<>>
    ELSE ChecksOnSpec(PyDictGet(workload_data, "spec", EmptyMap))

(***************************************************************************)
(* The workloads handed to analyze_security.                               *)
(***************************************************************************)
Hardened ==
    <<"map", [runAsNonRoot |-> PyTrue, readOnlyRootFilesystem |-> PyTrue]>>

PodSecurityContexts ==
    {Absent, Null, EmptyMap, Hardened, <<"map", [runAsNonRoot |-> PyFalse]>>}

DropAll == <<"map", [drop |-> <<"list", <<PyStr(<<"A", "L", "L">>)>>>>]>>

SomeLimits == <<"map", [limits |-> <<"map", [cpu |-> PyStr(<<"1">>)]>>]>>

SecurityContainers ==
    {PlainContainer,
     <<"map", [name |-> PyStr(NAME_MAIN),
               securityContext |-> <<"map", [privileged |-> PyTrue]>>,
               resources |-> SomeLimits]>>,
     <<"map", [name |-> PyStr(NAME_SIDE),
               securityContext |->
                   <<"map", [privileged |-> PyTrue, capabilities |-> DropAll]>>]>>,
     <<"map", [name |-> PyStr(NAME_SIDE),
               securityContext |->
                   <<"map", [privileged |-> PyFalse, capabilities |-> DropAll]>>,
               resources |-> EmptyMap]>>,
     <<"map", [name |-> PyStr(NAME_MAIN), securityContext |-> Null]>>,
     <<"map", [securityContext |-> <<"map", [privileged |-> PyTrue]>>,
               resources |-> Null]>>,
     PyStr(NAME_MAIN)}

SecurityContainerLists ==
    {<<"list", cs>> :
        cs \in UNION {[1..n -> SecurityContainers] : n \in 0..MaxContainers}}

Volumes ==
    {Absent, Null,
     <<"list", <<<<"map", [name |-> PyStr(NAME_WEB),
                           hostPath |-> <<"map", [path |-> PyStr(<<"/">>)]>>]>>>>>>,
     <<"list", <<<<"map", [name |-> PyStr(NAME_WEB), emptyDir |-> EmptyMap]>>>>>>}

\* the mapping without the keys whose value is Absent
Present(fields) ==
    <<"map", [k \in {j \in DOMAIN fields : fields[j] # Absent} |-> fields[k]]>>

SecurityPodSpecs ==
    {Present([securityContext |-> sc, containers |-> cs, volumes |-> vs]) :
        sc \in PodSecurityContexts, cs \in SecurityContainerLists,
        vs \in Volumes}

SecurityWorkloads ==
    {<<"map", [spec |-> ps]>> : ps \in SecurityPodSpecs}
    \cup {<<"map", [spec |-> <<"map", [template |-> <<"map", [spec |-> ps]>>]>>]>> :
             ps \in SecurityPodSpecs}
    \cup {<<"map", [spec |-> Null]>>,
          <<"map", [spec |-> <<"map", [template |-> <<"map", [spec |-> Null]>>]>>]>>,
          EmptyMap}

othersOfSecurity ==
    <<utilsVars, sizingVars, orchVars, mergeVars, patchVars, laterVars>>

InitSecurity ==
    /\ s_workload \in SecurityWorkloads
    /\ s_out = Pending
    /\ LaterIdle
    /\ UtilsIdle
    /\ SizingIdle
    /\ OrchIdle
    /\ MergeIdle
    /\ PatchIdle

AnalyzeSecurity ==
    /\ s_out = Pending
    /\ \E out \in {analyze_security(s_workload)} : s_out' = <<"return", out>>
    /\ UNCHANGED <<s_workload, othersOfSecurity>>

NextSecurity == AnalyzeSecurity

SpecSecurity == InitSecurity /\ [][NextSecurity]_vars

(***************************************************************************)
(* Claims about analyze_security.                                          *)
(***************************************************************************)
SecurityReturned == s_out # Pending /\ s_out[1] = "return"

Findings == s_out[2]

\* the pod's spec as the workload declares it, Null when there is none
DeclaredTemplateSpec ==
    IF ~IsMap(s_workload) \/ ~IsMap(PyDictGet(s_workload, "spec", EmptyMap))
    THEN Null
    ELSE IF ~IsMap(PyDictGet(PyDictGet(s_workload, "spec", EmptyMap),
                             "template", EmptyMap))
    THEN Null
    ELSE TemplateSpecOf(PyDictGet(s_workload, "spec", EmptyMap),
                        PyDictGet(PyDictGet(s_workload, "spec", EmptyMap),
                                  "template", EmptyMap))[2]

\* the items of a list the pod's spec declares under the key
Declared(key) ==
    IF IsMap(DeclaredTemplateSpec)
       /\ PyDictGet(DeclaredTemplateSpec, key, EmptyList)[1] = "list"
    THEN PyDictGet(DeclaredTemplateSpec, key, EmptyList)[2]
    ELSE <<>>

DeclaresPrivileged(container) ==
    /\ IsMap(container)
    /\ IsMap(PyDictGet(container, "securityContext", Null))
    /\ PyDictGet(container[2]["securityContext"], "privileged", Null) = PyTrue

PrivilegedContainers ==
    {i \in 1..Len(Declared("containers")) :
        DeclaresPrivileged(Declared("containers")[i])}

IsPrivilegedFinding(finding, container_name) ==
    /\ finding.rule = "privileged"
    /\ finding.subject = container_name
    /\ finding.risk_level = "high"
    /\ finding.confidence_score = Frac(95, 100)

NameAt(i) == ContainerName(Declared("containers")[i], i)

\* C16: each container that declares privileged: true yields exactly one
\* security finding with risk high and confidence 0.95, whatever else the
\* container, the pod-level securityContext or the rest of the workload
\* carries: the findings about a name are as many as the privileged
\* containers of that name.
C16_PrivilegedAlwaysFound ==
    SecurityReturned =>
        \A i \in PrivilegedContainers :
            Cardinality({k \in 1..Len(Findings) :
                            IsPrivilegedFinding(Findings[k], NameAt(i))})
            = Cardinality({j \in PrivilegedContainers : NameAt(j) = NameAt(i)})

\* C17: among the findings of analyze_security only the privileged-mode
\* finding has risk high; every other finding has risk low or medium.
C17_OnlyPrivilegedIsHigh ==
    SecurityReturned =>
        \A k \in 1..Len(Findings) :
            Findings[k].rule # "privileged"
                => Findings[k].risk_level \in {"low", "medium"}

\* C17 as amended: risk high is given to the privileged-mode finding
\* (confidence 0.95) and to the hostPath finding (confidence 0.9) only;
\* every finding of another condition has risk low or medium.
C17_HighIsPrivilegedOrHostPath ==
    SecurityReturned =>
        \A k \in 1..Len(Findings) :
            /\ Findings[k].risk_level \in {"low", "medium", "high"}
            /\ Findings[k].risk_level = "high"
                   <=> Findings[k].rule \in {"privileged", "hostPath"}
            /\ Findings[k].rule = "privileged"
                   => Findings[k].confidence_score = Frac(95, 100)
            /\ Findings[k].rule = "hostPath"
                   => Findings[k].confidence_score = Frac(9, 10)

\* a pass that found a privileged container, a hostPath volume, and
\* conditions of the other kinds
C17_Witness ==
    /\ SecurityReturned
    /\ \E k \in 1..Len(Findings) : Findings[k].rule = "privileged"
    /\ \E k \in 1..Len(Findings) : Findings[k].rule = "hostPath"
    /\ \E k \in 1..Len(Findings) : Findings[k].rule = "missing resource limits"
    /\ \E k \in 1..Len(Findings) : Findings[k].risk_level = "low"

\* the recommendations of a check run by itself, whether or not it raises
Found(outcome) == {outcome[2][k] : k \in 1..Len(outcome[2])}

\* C18: the checks fail independently: when one check raises, the findings
\* of every other check for the workload, later ones included, are still
\* returned.
C18_ChecksFailIndependently ==
    SecurityReturned /\ IsMap(DeclaredTemplateSpec) =>
        /\ Found(PodChecks(DeclaredTemplateSpec))
               \subseteq Found(<<"ok", Findings>>)
        /\ \A i \in 1..Len(Declared("containers")) :
               Found(ContainerCheck(Declared("containers")[i], i))
               \cup Found(LimitsCheck(Declared("containers")[i], i))
                   \subseteq Found(<<"ok", Findings>>)
        /\ \A i \in 1..Len(Declared("volumes")) :
               Found(VolumeCheck(Declared("volumes")[i], i))
                   \subseteq Found(<<"ok", Findings>>)

(***************************************************************************)
(* backend/registry.py: the size of a container image and the image        *)
(* analysis of a workload.  The registry is the environment: for an image  *)
(* it answers <<"raise">> (the request raises), <<"manifest", m>> (the     *)
(* manifest request ends with status 200 and body m), <<"fallback", d>>    *)
(* (the manifest request fails and the tag request gives 200 and body d)   *)
(* or <<"fail">> (neither gives 200).                                      *)
(***************************************************************************)
DEFAULT_IMAGE_SIZE_THRESHOLD_MB == 200

BytesPerMb == 1024 * 1024

PyInteger(n) == <<"int", n>>

\* sub in s, for strings
Contains(s, sub) ==
    \E i \in 1..(Len(s) - Len(sub) + 1) : SubSeq(s, i, i + Len(sub) - 1) = sub

StartsWith(s, prefix) ==
    Len(prefix) <= Len(s) /\ SubSeq(s, 1, Len(prefix)) = prefix

\* the index of the first c in s, 0 when there is none
Find(s, c) ==
    IF \E i \in 1..Len(s) : s[i] = c
    THEN CHOOSE i \in 1..Len(s) : s[i] = c /\ \A j \in 1..(i - 1) : s[j] # c
    ELSE 0

\* s.split(c)
RECURSIVE Split(_, _)
Split(s, c) ==
    IF Find(s, c) = 0 THEN <<s>>
    ELSE <<SubSeq(s, 1, Find(s, c) - 1)>>
         \o Split(SubSeq(s, Find(s, c) + 1, Len(s)), c)

\* s.split(c, 1)[0]
BeforeFirst(s, c) == IF Find(s, c) = 0 THEN s ELSE SubSeq(s, 1, Find(s, c) - 1)

GHCR == <<"g", "h", "c", "r", ".", "i", "o">>
DOCKER_IO == <<"d", "o", "c", "k", "e", "r", ".", "i", "o">>

\* total_size += layer['size'] over the layers that have a size
RECURSIVE TotalSize(_)
TotalSize(layers) ==
    IF layers = <<>> THEN 0
    ELSE (IF Has(Head(layers), "size") THEN Head(layers)[2]["size"][2] ELSE 0)
         + TotalSize(Tail(layers))

\* int(total_size / (1024 * 1024))
SizeMb(size_bytes) == size_bytes \div BytesPerMb

\* the manifest's layers summed and converted
ManifestSize(manifest) ==
    PyInteger(SizeMb(TotalSize(PyDictGet(manifest, "layers", EmptyList)[2])))

\* registry.py lines 221-262: what the answers to the requests become
SizeFromAnswer(answer) ==
    IF answer[1] = "manifest" THEN ManifestSize(answer[2])
    ELSE IF answer[1] = "fallback" /\ Has(answer[2], "full_size")
    THEN PyInteger(SizeMb(answer[2][2]["full_size"][2]))
    ELSE Null

fetch_docker_hub_size(image_ref, answer) == SizeFromAnswer(answer)

\* registry.py lines 55-79: the owner and the repository of the reference
GhcrRepoParts(image_ref) ==
    Split(BeforeFirst(Split(image_ref, "/")[3], ":"), "/")

fetch_github_container_registry_size(image_ref, answer) ==
    IF ~StartsWith(image_ref, GHCR \o <<"/">>) THEN Null
    ELSE IF Len(Split(image_ref, "/")) < 3 THEN Null
    ELSE IF Len(GhcrRepoParts(image_ref)) < 2 THEN Null
    ELSE IF answer[1] = "manifest" THEN ManifestSize(answer[2])
    ELSE Null

get_image_size_from_kubelet(image_ref) == Null

\* the answer of the registry for the reference
AnswerFor(registry, image_ref) ==
    IF image_ref \in DOMAIN registry THEN registry[image_ref] ELSE <<"fail">>

get_container_image_size(image_ref, token, registry) ==
    IF image_ref[1] # "str" THEN Null
    ELSE IF Contains(image_ref[2], GHCR)
    THEN IF ~token THEN Null
         ELSE fetch_github_container_registry_size(
                  image_ref[2], AnswerFor(registry, image_ref[2]))
    ELSE IF Contains(image_ref[2], DOCKER_IO)
            \/ ~Contains(BeforeFirst(image_ref[2], ":"), <<"/">>)
    THEN fetch_docker_hub_size(image_ref[2], AnswerFor(registry, image_ref[2]))
    ELSE get_image_size_from_kubelet(image_ref[2])

\* round(x, 2)
Round2(x) == Frac(PyRound(RMul(x, RInt(100))), 100)

ImageOpportunity(image_ref, image_size_mb) ==
    [type |-> "image-optimization",
     image_ref |-> image_ref,
     current_size_mb |-> image_size_mb,
     threshold_mb |-> DEFAULT_IMAGE_SIZE_THRESHOLD_MB,
     estimated_savings_usd |->
         Round2(RMul(RMul(RInt(image_size_mb - DEFAULT_IMAGE_SIZE_THRESHOLD_MB),
                          Frac(1, 10000)), RInt(30))),
     estimated_carbon_gco2e |->
         Round2(RMul(RInt(image_size_mb - DEFAULT_IMAGE_SIZE_THRESHOLD_MB),
                     Frac(2, 100))),
     confidence_score |-> Frac(8, 10),
     risk_level |-> "low"]

\* image_size_mb and image_size_mb > DEFAULT_IMAGE_SIZE_THRESHOLD_MB
OverThreshold(image_size_mb) ==
    /\ image_size_mb # Null
    /\ image_size_mb[2] # 0
    /\ image_size_mb[2] > DEFAULT_IMAGE_SIZE_THRESHOLD_MB

SizedImage(image_ref, image_size_mb) ==
    <<"ok", When(OverThreshold(image_size_mb),
                 ImageOpportunity(image_ref, image_size_mb[2]))>>

\* registry.py lines 299-327: the body of the loop for one container
ImageCheck(container, token, registry) ==
    IF container[1] \notin {"map", "list", "str"} THEN <<"raise", <<>>>>
    ELSE IF ~(IsMap(container) /\ Has(container, "image")) THEN <<"ok", <<>>>>
    ELSE SizedImage(container[2]["image"],
                    get_container_image_size(container[2]["image"], token,
                                             registry))

\* registry.py lines 292-297: the containers of the workload, or a raise
ContainersOfTemplate(template) ==
    IF Has(template, "spec")
    THEN IF template[2]["spec"] = Null THEN <<"raise">>
         ELSE IF Has(template[2]["spec"], "containers")
         THEN <<"ok", template[2]["spec"][2]["containers"]>>
         ELSE <<"ok", EmptyList>>
    ELSE <<"ok", EmptyList>>

ContainersOfSpec(spec) ==
    IF spec = Null THEN <<"raise">>
    ELSE IF Has(spec, "template")
    THEN IF spec[2]["template"] = Null THEN <<"raise">>
         ELSE ContainersOfTemplate(spec[2]["template"])
    ELSE IF Has(spec, "containers") THEN <<"ok", spec[2]["containers"]>>
    ELSE <<"ok", EmptyList>>

ContainersOf(workload_data) ==
    IF Has(workload_data, "spec")
    THEN ContainersOfSpec(workload_data[2]["spec"])
    ELSE <<"ok", EmptyList>>

\* the loop over the containers: it ends at the first raise
ImageLoop(containers, token, registry) ==
    IF containers[1] # "list" THEN <<>>
    ELSE Loop([i \in 1..Len(containers[2]) |->
                  ImageCheck(containers[2][i], token, registry)],
              FirstRaise([i \in 1..Len(containers[2]) |->
                  ImageCheck(containers[2][i], token, registry)]))[2]

\* the return statement: len(containers) is taken outside the try
ImageAnalysis(containers, opportunities) ==
    IF containers[1] # "list" THEN <<"raise", "TypeError">>
    ELSE <<"return", [opportunities |-> opportunities,
                      analyzed_containers |-> Len(containers[2])]>>

AnalyzeContainers(found, token, registry) ==
    IF found[1] = "raise" THEN ImageAnalysis(EmptyList, <<>>)
    ELSE ImageAnalysis(found[2], ImageLoop(found[2], token, registry))

analyze_image_optimization_opportunities(workload_data, token, registry) ==
    AnalyzeContainers(ContainersOf(workload_data), token, registry)

(***************************************************************************)
(* The workloads and registries of the image analysis.                     *)
(***************************************************************************)
IMAGE_REDIS == <<"r", "e", "d", "i", "s">>
IMAGE_GHCR == GHCR \o <<"/", "o", "/", "r", ":", "1">>
IMAGE_QUAY == <<"q", "u", "a", "y", ".", "i", "o", "/", "a">>

ThresholdBytes == DEFAULT_IMAGE_SIZE_THRESHOLD_MB * BytesPerMb

Layer(size_bytes) == <<"map", [size |-> PyInteger(size_bytes)]>>

Manifest(layers) == <<"map", [layers |-> <<"list", layers>>]>>

Answers ==
    {<<"raise">>, <<"fail">>,
     <<"manifest", EmptyMap>>,
     <<"manifest", Manifest(<<>>)>>,
     <<"manifest", Manifest(<<Layer(ThresholdBytes)>>)>>,
     <<"manifest", Manifest(<<Layer(ThresholdBytes), Layer(1)>>)>>,
     <<"manifest", Manifest(<<Layer(ThresholdBytes + BytesPerMb)>>)>>,
     <<"manifest", Manifest(<<Layer(500 * BytesPerMb), Layer(500 * BytesPerMb)>>)>>,
     <<"fallback", EmptyMap>>,
     <<"fallback", <<"map", [full_size |-> PyInteger(ThresholdBytes + 1)]>>>>,
     <<"fallback", <<"map", [full_size |-> PyInteger(ThresholdBytes + BytesPerMb)]>>>>}

FewAnswers ==
    {<<"raise">>,
     <<"manifest", Manifest(<<Layer(ThresholdBytes)>>)>>,
     <<"manifest", Manifest(<<Layer(ThresholdBytes + BytesPerMb)>>)>>}

Registries ==
    {(IMAGE_NGINX :> a) @@ (IMAGE_REDIS :> b) @@ (IMAGE_GHCR :> c) :
        a \in Answers, b \in FewAnswers,
        c \in {<<"fail">>,
               <<"manifest", Manifest(<<Layer(ThresholdBytes + BytesPerMb)>>)>>}}

ImageContainers ==
    {PlainContainer,
     <<"map", [name |-> PyStr(NAME_SIDE), image |-> PyStr(IMAGE_REDIS)]>>,
     <<"map", [name |-> PyStr(NAME_SIDE), image |-> PyStr(IMAGE_GHCR)]>>,
     <<"map", [image |-> PyStr(IMAGE_QUAY)]>>,
     <<"map", [name |-> PyStr(NAME_WEB)]>>,
     <<"map", [name |-> PyStr(NAME_WEB), image |-> Null]>>,
     Null}

ImageContainerLists ==
    {<<"list", cs>> :
        cs \in UNION {[1..n -> ImageContainers] : n \in 0..MaxContainers}}

ImageWorkloads ==
    {<<"map", [spec |-> <<"map", [containers |-> cs]>>]>> :
        cs \in ImageContainerLists}
    \cup {<<"map", [spec |-> <<"map", [template |->
                  <<"map", [spec |-> <<"map", [containers |-> cs]>>]>>]>>]>> :
             cs \in ImageContainerLists}
    \cup {EmptyMap,
          <<"map", [spec |-> Null]>>,
          <<"map", [spec |-> <<"map", [containers |-> Null]>>]>>,
          <<"map", [spec |-> <<"map", [template |-> Null]>>]>>,
          <<"map", [spec |-> <<"map", [template |-> <<"map", [spec |-> Null]>>]>>]>>,
          <<"map", [spec |-> <<"map", [template |-> EmptyMap,
                                       containers |-> <<"list", <<PlainContainer>>>>]>>]>>}

othersOfImage ==
    <<utilsVars, sizingVars, orchVars, mergeVars, patchVars, securityVars,
      analyzeVars, serverVars>>

InitImage ==
    /\ i_workload \in ImageWorkloads
    /\ i_token \in BOOLEAN
    /\ i_registry \in Registries
    /\ i_out = Pending
    /\ UtilsIdle
    /\ SizingIdle
    /\ OrchIdle
    /\ MergeIdle
    /\ PatchIdle
    /\ SecurityIdle
    /\ AnalyzeIdle
    /\ ServerIdle

AnalyzeImages ==
    /\ i_out = Pending
    /\ \E out \in {analyze_image_optimization_opportunities(
                       i_workload, i_token, i_registry)} : i_out' = out
    /\ UNCHANGED <<i_workload, i_token, i_registry, othersOfImage>>

NextImage == AnalyzeImages

SpecImage == InitImage /\ [][NextImage]_vars

(***************************************************************************)
(* Claims about the image analysis.                                        *)
(***************************************************************************)
ImageReturned == i_out # Pending

\* the containers the workload declares, none when it declares no list
DeclaredImageContainers ==
    IF ContainersOf(i_workload)[1] = "ok"
       /\ ContainersOf(i_workload)[2][1] = "list"
    THEN ContainersOf(i_workload)[2][2]
    ELSE <<>>

DeclaresImage(container) ==
    IsMap(container) /\ Has(container, "image") /\ container[2]["image"] # Null

\* the images declared, and how many containers declare each
DeclaredImages ==
    {DeclaredImageContainers[i][2]["image"] :
        i \in {j \in 1..Len(DeclaredImageContainers) :
                  DeclaresImage(DeclaredImageContainers[j])}}

Declaring(image_ref) ==
    Cardinality({i \in 1..Len(DeclaredImageContainers) :
                    /\ DeclaresImage(DeclaredImageContainers[i])
                    /\ DeclaredImageContainers[i][2]["image"] = image_ref})

\* the bytes the registry reported for the image when the lookup resolved a
\* size, -1 when the lookup failed or returned nothing
ReportedBytes(image_ref) ==
    IF get_container_image_size(image_ref, i_token, i_registry) = Null
    THEN -1
    ELSE IF AnswerFor(i_registry, image_ref[2])[1] = "manifest"
    THEN TotalSize(PyDictGet(AnswerFor(i_registry, image_ref[2])[2],
                             "layers", EmptyList)[2])
    ELSE AnswerFor(i_registry, image_ref[2])[2][2]["full_size"][2]

OpportunitiesFor(image_ref) ==
    Cardinality({k \in 1..Len(i_out[2].opportunities) :
                    i_out[2].opportunities[k].image_ref = image_ref})

\* C19: for each container that declares an image the analysis emits exactly
\* one opportunity when the resolved size of the image exceeds 200 MB and
\* none otherwise: none at exactly 200 MB, one at 200 MB and one byte, none
\* when the lookup fails or returns nothing, and no error leaves the
\* function over a failed lookup.
C19_OneOpportunityOverThreshold ==
    ImageReturned /\ DeclaredImages # {} =>
        /\ i_out[1] = "return"
        /\ \A image_ref \in DeclaredImages :
               OpportunitiesFor(image_ref) =
                   IF ReportedBytes(image_ref) > ThresholdBytes
                   THEN Declaring(image_ref)
                   ELSE 0

(***************************************************************************)
(* backend/main.py, analyze_opportunities: the rightsizing rule, the first *)
(* step of the handler for a workload.  A row of cost_metrics.data is a    *)
(* record of numbers; the step reads the rows and the carbon figures of    *)
(* energy_metrics.data and inserts at most one row into opportunities.     *)
(* When the insert raises, the handler answers HTTP 500.                   *)
(***************************************************************************)
RECURSIVE SumOf(_, _)
SumOf(rows, field) ==
    IF rows = <<>> THEN RInt(0)
    ELSE RAdd(Head(rows)[field], SumOf(Tail(rows), field))

RECURSIVE SumAll(_)
SumAll(values) ==
    IF values = <<>> THEN RInt(0) ELSE RAdd(Head(values), SumAll(Tail(values)))

\* sum(m[field] for m in data) / len(data)
Average(rows, field) == RDiv(SumOf(rows, field), Len(rows))

\* sum(...) / len(energy_metrics.data) if energy_metrics.data else 0
AverageCarbon(energy) ==
    IF energy = <<>> THEN RInt(0) ELSE RDiv(SumAll(energy), Len(energy))

\* 1 / y for y > 0
Reciprocal(y) == Q(y[2] * Pow2(y[3]), y[1], 0)

\* (used / requested) * 100 if requested > 0 else 0
Utilization(used, requested) ==
    IF RLess(RInt(0), requested)
    THEN RMul(RMul(used, Reciprocal(requested)), RInt(100))
    ELSE RInt(0)

\* cpu_utilization < 20 or memory_utilization < 20
Underutilized_Inclusive(cpu_utilization, memory_utilization) ==
    RLeq(cpu_utilization, RInt(20)) \/ RLeq(memory_utilization, RInt(20))
Underutilized(cpu_utilization, memory_utilization) ==
    RLess(cpu_utilization, RInt(20)) \/ RLess(memory_utilization, RInt(20))

\* main.py lines 516-525: risk_level and confidence
RiskBand(cpu_utilization, memory_utilization) ==
    IF RLess(cpu_utilization, RInt(10)) \/ RLess(memory_utilization, RInt(10))
    THEN [risk_level |-> "low", confidence |-> Frac(9, 10)]
    ELSE IF RLess(cpu_utilization, RInt(15))
            \/ RLess(memory_utilization, RInt(15))
    THEN [risk_level |-> "medium", confidence |-> Frac(75, 100)]
    ELSE [risk_level |-> "medium", confidence |-> Frac(6, 10)]

\* recommended_cpu / avg_cpu_requested if avg_cpu_requested > 0 else 1, with
\* recommended_cpu = avg_cpu_used * 2 * 1.2
CpuReductionRatio(avg_cpu_used, avg_cpu_requested) ==
    IF RLess(RInt(0), avg_cpu_requested)
    THEN RMul(RMul(RMul(avg_cpu_used, RInt(2)), Frac(12, 10)),
              Reciprocal(avg_cpu_requested))
    ELSE RInt(1)

Monthly(x) == RMul(RMul(x, RInt(24)), RInt(30))

\* main.py lines 530-544: the row inserted into opportunities
RightsizingOpportunity(avg_total_cost, avg_carbon, ratio, band) ==
    [opportunity_type |-> "rightsizing",
     status |-> "pending",
     current_cost_usd |-> Monthly(avg_total_cost),
     projected_cost_usd |-> Monthly(RMul(avg_total_cost, ratio)),
     savings_usd |->
         Monthly(RSub(avg_total_cost, RMul(avg_total_cost, ratio))),
     current_carbon_gco2e |-> Monthly(avg_carbon),
     projected_carbon_gco2e |-> Monthly(RMul(avg_carbon, ratio)),
     carbon_reduction_gco2e |->
         Monthly(RSub(avg_carbon, RMul(avg_carbon, ratio))),
     confidence_score |-> band.confidence,
     risk_level |-> band.risk_level]

\* the rows the rule wants inserted, given the two utilizations
RuleOn(rows, energy, cpu_utilization, memory_utilization) ==
    IF Underutilized(cpu_utilization, memory_utilization)
    THEN <<RightsizingOpportunity(
               Average(rows, "total_cost_usd"), AverageCarbon(energy),
               CpuReductionRatio(Average(rows, "cpu_cores_used"),
                                 Average(rows, "cpu_cores_requested")),
               RiskBand(cpu_utilization, memory_utilization))>>
    ELSE <<>>

\* main.py lines 488-546: nothing without cost metrics
RightsizingRule(rows, energy) ==
    IF rows = <<>> THEN <<>>
    ELSE RuleOn(rows, energy,
                Utilization(Average(rows, "cpu_cores_used"),
                            Average(rows, "cpu_cores_requested")),
                Utilization(Average(rows, "memory_gb_used"),
                            Average(rows, "memory_gb_requested")))

CpuSamples ==
    {<<RInt(0), Frac(1, 4)>>, <<RInt(2), Frac(1, 10)>>, <<RInt(1), Frac(1, 10)>>,
     <<RInt(1), Frac(3, 20)>>, <<RInt(1), Frac(1, 5)>>, <<RInt(1), Frac(1, 2)>>}

MemorySamples ==
    {<<RInt(0), RInt(1)>>, <<RInt(4), Frac(2, 5)>>, <<RInt(4), Frac(3, 5)>>,
     <<RInt(4), Frac(4, 5)>>}

CostRows ==
    {[cpu_cores_requested |-> c[1], cpu_cores_used |-> c[2],
      memory_gb_requested |-> m[1], memory_gb_used |-> m[2],
      total_cost_usd |-> Frac(1, 10)] :
        c \in CpuSamples, m \in MemorySamples}

CostData == UNION {[1..n -> CostRows] : n \in 0..MaxRows}

EnergyData == {<<>>, <<RInt(100), RInt(50)>>}

othersOfAnalyze ==
    <<utilsVars, sizingVars, orchVars, mergeVars, patchVars, securityVars,
      imageVars, serverVars>>

InitAnalyze ==
    /\ a_rows \in CostData
    /\ a_energy \in EnergyData
    /\ a_pc = "rightsizing"
    /\ a_opportunities = <<>>
    /\ a_kind = "Deployment"
    /\ a_read = <<"raise">>
    /\ a_warned = FALSE
    /\ UtilsIdle
    /\ SizingIdle
    /\ OrchIdle
    /\ MergeIdle
    /\ PatchIdle
    /\ SecurityIdle
    /\ ImageIdle
    /\ ServerIdle

\* the rightsizing step runs to its end: the handler goes on to the
\* scheduling analysis
Rightsizing ==
    /\ a_pc = "rightsizing"
    /\ \E found \in {RightsizingRule(a_rows, a_energy)} :
           a_opportunities' = a_opportunities \o found
    /\ a_pc' = "scheduling"
    /\ UNCHANGED <<a_rows, a_energy, a_kind, a_read, a_warned, othersOfAnalyze>>

\* the insert raises: the outer except answers HTTP 500
InsertFails ==
    /\ a_pc = "rightsizing"
    /\ RightsizingRule(a_rows, a_energy) # <<>>
    /\ a_pc' = "failed"
    /\ UNCHANGED <<a_rows, a_energy, a_opportunities, a_kind, a_read, a_warned,
                   othersOfAnalyze>>

NextAnalyze == Rightsizing \/ InsertFails

SpecAnalyze == InitAnalyze /\ [][NextAnalyze]_vars

(***************************************************************************)
(* Claims about the rightsizing rule.                                      *)
(***************************************************************************)
RightsizingDone == a_pc = "scheduling"

\* used / requested * 100 < percent over the window, the utilization being
\* 0 when nothing is requested; the averages share the number of rows, so
\* the sums decide
Below(percent, used, requested) ==
    \/ ~RLess(RInt(0), SumOf(a_rows, requested))
    \/ RLess(RMul(SumOf(a_rows, used), RInt(100)),
             RMul(SumOf(a_rows, requested), RInt(percent)))

EitherBelow(percent) ==
    \/ Below(percent, "cpu_cores_used", "cpu_cores_requested")
    \/ Below(percent, "memory_gb_used", "memory_gb_requested")

HasBand(risk_level, confidence) ==
    /\ a_opportunities[1].risk_level = risk_level
    /\ a_opportunities[1].confidence_score = confidence

\* C20: with cost metrics for the workload, the rightsizing rule fires
\* exactly when the CPU utilization or the memory utilization is below 20%
\* (a utilization is 0 when the request is 0), and its finding has risk low
\* and confidence 0.9 when a utilization is below 10%, else risk medium and
\* confidence 0.75 when one is below 15%, else risk medium and confidence 0.6.
C20_RightsizingBands ==
    RightsizingDone /\ a_rows # <<>> =>
        /\ Len(a_opportunities) = (IF EitherBelow(20) THEN 1 ELSE 0)
        /\ EitherBelow(10) => HasBand("low", Frac(9, 10))
        /\ EitherBelow(15) /\ ~EitherBelow(10)
               => HasBand("medium", Frac(75, 100))
        /\ EitherBelow(20) /\ ~EitherBelow(15)
               => HasBand("medium", Frac(6, 10))

\* the rule fired in its third band: one utilization is at least 15% and
\* below 20%, the other is not below 15%
C20_Witness ==
    /\ RightsizingDone
    /\ Len(a_opportunities) = 1
    /\ EitherBelow(20)
    /\ ~EitherBelow(15)
    /\ HasBand("medium", Frac(6, 10))

(***************************************************************************)
(* Claims about the backoff of ask and the construction of a provider      *)
(* (Spec).                                                                 *)
(***************************************************************************)
RECURSIVE SumInts(_)
SumInts(ns) == IF ns = <<>> THEN 0 ELSE Head(ns) + SumInts(Tail(ns))

\* the failed attempts so far that were not the last allowed one; request
\* i is attempt i - 1
FailedNotLast ==
    {i \in 1..NRequests : g_requests[i][1] = "fail" /\ i - 1 < g_retries - 1}

\* C22: after failed attempt k (from 0) that is not the last allowed one,
\* ask waits 2^k seconds (plus the jitter) before the next attempt; it waits
\* neither after the last failed attempt nor after a successful one, so a
\* call whose N attempts all fail has waited 2^0 + ... + 2^(N-2) seconds.
C22_ExponentialBackoff ==
    /\ \A i \in 1..Len(g_sleeps) : i \in FailedNotLast /\ g_sleeps[i] = Pow2(i - 1)
    /\ g_pc # "sleep" => Len(g_sleeps) = Cardinality(FailedNotLast)
    /\ g_pc = "sleep" => Len(g_sleeps) = Cardinality(FailedNotLast) - 1
    /\ (AllRequestsFailed /\ g_retries >= 1)
           => SumInts(g_sleeps) = Pow2(g_retries - 1) - 1

\* three attempts failed: ask waited 1 and 2 seconds and then raised
C22_Witness ==
    /\ AllRequestsFailed
    /\ g_retries = 3
    /\ g_sleeps = <<1, 2>>

\* the provider configured needs a key and the configuration has none
KeyMissing == g_provider \in {"openai", "anthropic"} /\ ~g_api_key

\* C23: a provider that needs a credential fails at construction when the
\* credential is absent, and then no request is ever sent: the failure is
\* the constructor's ValueError and the retry loop is never entered.
C23_FailsBeforeAnyRequest ==
    (KeyMissing /\ g_pc # "start") =>
        /\ g_response_data = FallbackDict(<<"ValueError", 0>>)
        /\ g_requests = <<>>
        /\ g_sleeps = <<>>
        /\ g_attempt = 0
        /\ g_ask = Pending

\* an OpenAI provider without key: the call is over and nothing was sent
C23_Witness ==
    /\ g_provider = "openai"
    /\ ~g_api_key
    /\ Done
    /\ g_requests = <<>>

(***************************************************************************)
(* Claims about the units of the estimator's sample (SpecSizing).          *)
(***************************************************************************)
IsWholeNumber(v) == v[1] = "num" /\ v[2][2] = 1 /\ v[2][3] = 0 /\ v[2][1] >= 0

\* the sample with its numeric memory_requested g written as "<g>Gi"
MemoryAsGi(sample) ==
    [sample EXCEPT !.memory_requested =
        <<"str", IntToStr(sample.memory_requested[2][1]) \o <<"G", "i">>>>]

\* the memory reduction of a sample whose call returned out
MemoryReduction(sample, out) ==
    Reduction(parse_mem_to_gb(sample.memory_requested)[2], out.suggested_mem_gb)

SameReductionAndSaving(sample_a, out_a, sample_b, out_b) ==
    /\ out_a[1] = out_b[1]
    /\ out_a[1] = "ok" =>
           /\ out_a[2].monthly_saving_usd = out_b[2].monthly_saving_usd
           /\ MemoryReduction(sample_a, out_a[2])
                  = MemoryReduction(sample_b, out_b[2])

\* C24: a sample whose memory_requested is the number g, in gigabytes as the
\* recommendations endpoint passes it, yields the same memory reduction and
\* monthly saving as the sample with memory_requested = "<g>Gi".
C24_NumericMemoryIsGigabytes ==
    (r_out # Pending /\ IsWholeNumber(r_sample.memory_requested)) =>
        SameReductionAndSaving(r_sample, r_out, MemoryAsGi(r_sample),
                               compute_rightsizing(MemoryAsGi(r_sample)))

\* C25: every rightsizing opportunity the analysis inserts proposes a
\* reduction: its savings are not negative and its projected cost and
\* carbon do not exceed its current cost and carbon.
C25_OpportunityIsAReduction ==
    RightsizingDone =>
        \A k \in 1..Len(a_opportunities) :
            /\ RLeq(RInt(0), a_opportunities[k].savings_usd)
            /\ RLeq(a_opportunities[k].projected_cost_usd,
                    a_opportunities[k].current_cost_usd)
            /\ RLeq(RInt(0), a_opportunities[k].carbon_reduction_gco2e)
            /\ RLeq(a_opportunities[k].projected_carbon_gco2e,
                    a_opportunities[k].current_carbon_gco2e)

(***************************************************************************)
(* backend/main.py, analyze_opportunities: the scheduling analysis, the    *)
(* step after the rightsizing rule.  Reading the workload from the cluster *)
(* raises, gives nothing, or gives an object whose pod template spec is    *)
(* seen through three attributes: each is not an attribute of the object   *)
(* ("absent"), None ("none") or set.                                       *)
(***************************************************************************)
Kinds == {"Deployment", "StatefulSet", "DaemonSet"}

AttributeStates == {"absent", "none", "set"}

TemplateSpecs ==
    [restart_policy : {"absent", "Always", "Never"},
     node_selector : AttributeStates,
     tolerations : AttributeStates]

Reads ==
    {<<"raise">>, <<"nothing">>} \cup {<<"object", ts>> : ts \in TemplateSpecs}

\* hasattr(template_spec, name)
HasAttr(template_spec, name) == template_spec[name] # "absent"

\* a fixed-figure row of the scheduling analysis
SchedulingOpportunity(savings, carbon_savings, confidence, risk_level) ==
    [opportunity_type |-> "scheduling",
     status |-> "pending",
     current_cost_usd |-> RInt(savings * 2),
     projected_cost_usd |-> RInt(savings),
     savings_usd |-> RInt(savings),
     current_carbon_gco2e |-> RInt(carbon_savings * 2),
     projected_carbon_gco2e |-> RInt(carbon_savings),
     carbon_reduction_gco2e |-> RInt(carbon_savings),
     confidence_score |-> confidence,
     risk_level |-> risk_level]

\* main.py lines 578-598: convert to a CronJob
BatchConversion == SchedulingOpportunity(50, 1000, Frac(7, 10), "medium")

\* main.py lines 607-627: add node selectors or tolerations
NodePlacement == SchedulingOpportunity(30, 500, Frac(6, 10), "low")

\* main.py lines 564-567
LooksLikeBatch(template_spec) ==
    /\ HasAttr(template_spec, "restart_policy")
    /\ template_spec.restart_policy = "Always"
    /\ ~HasAttr(template_spec, "node_selector")
    /\ ~HasAttr(template_spec, "tolerations")

\* main.py lines 571-575: is_batch_job
IsBatchJob(rows) ==
    /\ rows # <<>>
    /\ RLess(Utilization(Average(rows, "cpu_cores_used"),
                         Average(rows, "cpu_cores_requested")), RInt(5))

\* main.py lines 603-605
Unconstrained(template_spec, kind) ==
    /\ ~HasAttr(template_spec, "node_selector")
    /\ ~HasAttr(template_spec, "tolerations")
    /\ kind = "Deployment"

\* main.py lines 564-627: if ... elif ...
SchedulingRules(rows, kind, template_spec) ==
    IF LooksLikeBatch(template_spec)
    THEN When(IsBatchJob(rows), BatchConversion)
    ELSE When(Unconstrained(template_spec, kind), NodePlacement)

\* main.py lines 549-632 without a failure: the rows the step inserts
SchedulingAnalysis(rows, kind, read) ==
    IF kind \notin {"Deployment", "StatefulSet"} \/ read[1] # "object"
    THEN <<>>
    ELSE SchedulingRules(rows, kind, read[2])

SchedulingRows ==
    {r \in CostRows :
        /\ <<r.cpu_cores_requested, r.cpu_cores_used>>
               \in {<<RInt(0), Frac(1, 4)>>, <<RInt(1), Frac(1, 10)>>}
        /\ r.memory_gb_used = Frac(4, 5)}

SchedulingCostData == UNION {[1..n -> SchedulingRows] : n \in 0..1}

InitScheduling ==
    /\ a_rows \in SchedulingCostData
    /\ a_energy = <<>>
    /\ a_pc = "rightsizing"
    /\ a_opportunities = <<>>
    /\ a_kind \in Kinds
    /\ a_read \in Reads
    /\ a_warned = FALSE
    /\ UtilsIdle
    /\ SizingIdle
    /\ OrchIdle
    /\ MergeIdle
    /\ PatchIdle
    /\ SecurityIdle
    /\ ImageIdle
    /\ ServerIdle

\* the scheduling analysis runs to its end; the read is made for the two
\* kinds analysed only, and an exception it raises is logged as a warning
Scheduling ==
    /\ a_pc = "scheduling"
    /\ \E found \in {SchedulingAnalysis(a_rows, a_kind, a_read)} :
           a_opportunities' = a_opportunities \o found
    /\ a_warned' = (a_kind \in {"Deployment", "StatefulSet"}
                       /\ a_read[1] = "raise")
    /\ a_pc' = "image"
    /\ UNCHANGED <<a_rows, a_energy, a_kind, a_read, othersOfAnalyze>>

\* the insert of the scheduling analysis raises: its except branch logs a
\* warning and the handler goes on
SchedulingInsertFails ==
    /\ a_pc = "scheduling"
    /\ SchedulingAnalysis(a_rows, a_kind, a_read) # <<>>
    /\ a_warned' = TRUE
    /\ a_pc' = "image"
    /\ UNCHANGED <<a_rows, a_energy, a_opportunities, a_kind, a_read,
                   othersOfAnalyze>>

NextScheduling ==
    Rightsizing \/ InsertFails \/ Scheduling \/ SchedulingInsertFails

SpecScheduling == InitScheduling /\ [][NextScheduling]_vars

(***************************************************************************)
(* Claims about the scheduling rules (SpecScheduling).                     *)
(***************************************************************************)
\* the scheduling analysis of a workload read from the cluster is over and
\* nothing failed in it
SchedulingDone == a_pc = "image" /\ ~a_warned /\ a_read[1] = "object"

Inserted == {a_opportunities[k] : k \in 1..Len(a_opportunities)}

\* neither a node selector nor tolerations
LacksTopologyConstraints ==
    /\ a_read[2].node_selector \in {"absent", "none"}
    /\ a_read[2].tolerations \in {"absent", "none"}

\* CPU utilization below 5% over the window
CpuBelowFive ==
    /\ a_rows # <<>>
    /\ \/ ~RLess(RInt(0), SumOf(a_rows, "cpu_cores_requested"))
       \/ RLess(RMul(SumOf(a_rows, "cpu_cores_used"), RInt(100)),
                RMul(SumOf(a_rows, "cpu_cores_requested"), RInt(5)))

IsFinding(row, savings, confidence, risk_level) ==
    /\ row.opportunity_type = "scheduling"
    /\ row.savings_usd = RInt(savings)
    /\ row.confidence_score = confidence
    /\ row.risk_level = risk_level

\* C21: the two scheduling rules fire independently: a workload that always
\* restarts, has no topology constraints and a CPU utilization below 5%
\* yields the batch-conversion finding, and any workload without topology
\* constraints yields the node-placement finding, whether or not the
\* conditions of the batch-conversion rule hold for it too.
C21_SchedulingRulesIndependent ==
    SchedulingDone =>
        /\ (a_read[2].restart_policy = "Always" /\ LacksTopologyConstraints
                /\ CpuBelowFive)
               => \E row \in Inserted : IsFinding(row, 50, Frac(7, 10), "medium")
        /\ LacksTopologyConstraints
               => \E row \in Inserted : IsFinding(row, 30, Frac(6, 10), "low")

(***************************************************************************)
(* Container matching of generate_yaml_patch in merge mode (SpecPatch).    *)
(***************************************************************************)

\* the container holds requests of the recommended cpu and memory and a
\* limit for each of the two
CarriesRecommended(c, rec) ==
    LET resources == PyDictGet(c, "resources", Null)
        requests == IF IsMap(resources)
                    THEN PyDictGet(resources, "requests", Null) ELSE Null
        limits == IF IsMap(resources)
                  THEN PyDictGet(resources, "limits", Null) ELSE Null
    IN  /\ IsMap(requests)
        /\ IsMap(limits)
        /\ PyDictGet(requests, "cpu", Null)
             = PyStr(IntToStr(MilliCoresOf(rec.cpu)) \o MilliCores)
        /\ PyDictGet(requests, "memory", Null)
             = PyStr(IntToStr(MebiBytesOf(rec.memory)) \o MebiBytes)
        /\ PyDictGet(limits, "cpu", Null) # Null
        /\ PyDictGet(limits, "memory", Null) # Null

\* the manifest's pod template declares at least one container, each a
\* mapping without resources yet or with well-formed ones
DeclaresContainers(manifest) ==
    /\ Traversable(manifest)
    /\ Len(ContainerListOf(manifest)[2]) >= 1

\* C26: given a manifest whose pod template declares at least one container,
\* merge mode matches containers by the names the manifest declares: the
\* emitted document carries the recommended requests and limits on at least
\* one of the manifest's containers, whatever those containers are named.
C26_MatchesDeclaredNames ==
    (p_out # Pending /\ BothRecommended /\ DeclaresContainers(p_manifest)) =>
        /\ p_out[1] = "yaml"
        /\ \E i \in 1..Len(ContainerListOf(p_out[2])[2]) :
              CarriesRecommended(ContainerListOf(p_out[2])[2][i],
                                 RecommendedResources(p_rec)[2])

(***************************************************************************)
(* realtime_metrics.py: the ConnectionManager shared by the websocket      *)
(* handlers and the broadcasts. The tasks run on one event loop: a task    *)
(* runs from one await to the next, and an action below is one such run.   *)
(***************************************************************************)

MaxSockets == 2

Sockets == 1..MaxSockets

\* x in list
InList(list, x) == \E i \in 1..Len(list) : list[i] = x

\* list.remove(x): the list without the first x
ListRemove(list, x) ==
    LET i == CHOOSE k \in 1..Len(list) :
                 list[k] = x /\ \A j \in 1..(k - 1) : list[j] # x
    IN  SubSeq(list, 1, i - 1) \o SubSeq(list, i + 1, Len(list))

\* ConnectionManager.disconnect: the list left, or the ValueError of remove
disconnect(connections, websocket) ==
    IF InList(connections, websocket)
    THEN <<"ok", ListRemove(connections, websocket)>>
    ELSE <<"raise", "ValueError">>

\* the second loop of broadcast: disconnect for each of disconnected, up to
\* the first that raises; the list left and how the loop ended
RECURSIVE RemoveDisconnected(_, _)
RemoveDisconnected(connections, disconnected) ==
    IF disconnected = <<>> THEN <<"done", connections>>
    ELSE IF disconnect(connections, Head(disconnected))[1] = "raise"
    THEN <<"failed", connections>>
    ELSE RemoveDisconnected(
             disconnect(connections, Head(disconnected))[2],
             Tail(disconnected))

othersOfWs ==
    <<utilsVars, sizingVars, orchVars, mergeVars, patchVars, securityVars,
      imageVars, analyzeVars, clusterVars, httpVars>>

InitWs ==
    /\ active_connections = <<>>
    /\ ws_pc = [w \in Sockets |-> "connecting"]
    /\ ws_open = [w \in Sockets |-> TRUE]
    /\ bc_pc = "idle"
    /\ bc_index = 0
    /\ bc_connection = 0
    /\ bc_disconnected = <<>>
    /\ bc_attempted = {}
    /\ bc_stayed = {}
    /\ UtilsIdle
    /\ SizingIdle
    /\ OrchIdle
    /\ MergeIdle
    /\ PatchIdle
    /\ SecurityIdle
    /\ ImageIdle
    /\ AnalyzeIdle
    /\ ClusterIdle
    /\ HttpIdle

bcVars ==
    <<bc_pc, bc_index, bc_connection, bc_disconnected, bc_attempted,
      bc_stayed>>

\* the client goes away
ClientCloses(w) ==
    /\ ws_open[w]
    /\ ws_pc[w] \notin {"ended", "failed"}
    /\ ws_open' = [ws_open EXCEPT ![w] = FALSE]
    /\ UNCHANGED <<active_connections, ws_pc, bcVars, othersOfWs>>

\* manager.connect: accept returns and the websocket is appended, or accept
\* raises and the handler ends before its try
Connect(w) ==
    /\ ws_pc[w] = "connecting"
    /\ IF ws_open[w]
       THEN /\ active_connections' = Append(active_connections, w)
            /\ ws_pc' = [ws_pc EXCEPT ![w] = "receiving"]
       ELSE /\ ws_pc' = [ws_pc EXCEPT ![w] = "ended"]
            /\ UNCHANGED active_connections
    /\ UNCHANGED <<ws_open, bcVars, othersOfWs>>

\* receive_text returns a text and send_personal_message starts its send
Receive(w) ==
    /\ ws_pc[w] = "receiving"
    /\ ws_open[w]
    /\ ws_pc' = [ws_pc EXCEPT ![w] = "replying"]
    /\ UNCHANGED <<active_connections, ws_open, bcVars, othersOfWs>>

\* the send of send_personal_message returns or raises; both lead back to
\* receive_text
Reply(w) ==
    /\ ws_pc[w] = "replying"
    /\ ws_pc' = [ws_pc EXCEPT ![w] = "receiving"]
    /\ UNCHANGED <<active_connections, ws_open, bcVars, othersOfWs>>

\* receive_text raises WebSocketDisconnect and the except branch calls
\* manager.disconnect, whose ValueError leaves the handler
HandlerDisconnects(w) ==
    /\ ws_pc[w] = "receiving"
    /\ ~ws_open[w]
    /\ \E out \in {disconnect(active_connections, w)} :
          IF out[1] = "ok"
          THEN /\ active_connections' = out[2]
               /\ ws_pc' = [ws_pc EXCEPT ![w] = "ended"]
          ELSE /\ ws_pc' = [ws_pc EXCEPT ![w] = "failed"]
               /\ UNCHANGED active_connections
    /\ bc_stayed' = bc_stayed \ {w}
    /\ UNCHANGED <<ws_open, bc_pc, bc_index, bc_connection, bc_disconnected,
                   bc_attempted, othersOfWs>>

\* the for loop of broadcast asks its list iterator for the next websocket:
\* the send to it starts, or the loop is over and the second loop runs
NextConnection(index, disconnected) ==
    IF index < Len(active_connections)
    THEN /\ bc_pc' = "sending"
         /\ bc_index' = index + 1
         /\ bc_connection' = active_connections[index + 1]
         /\ bc_attempted' = bc_attempted \cup {active_connections[index + 1]}
         /\ bc_disconnected' = disconnected
         /\ UNCHANGED active_connections
    ELSE /\ \E out \in {RemoveDisconnected(active_connections, disconnected)} :
               /\ bc_pc' = out[1]
               /\ active_connections' = out[2]
         /\ bc_disconnected' = disconnected
         /\ UNCHANGED <<bc_index, bc_connection, bc_attempted>>

\* broadcast is called: up to its first send
BroadcastStarts ==
    /\ bc_pc \in {"idle", "done", "failed"}
    /\ bc_stayed' = {active_connections[i] : i \in 1..Len(active_connections)}
    /\ IF active_connections # <<>>
       THEN /\ bc_pc' = "sending"
            /\ bc_index' = 1
            /\ bc_connection' = active_connections[1]
            /\ bc_attempted' = {active_connections[1]}
            /\ bc_disconnected' = <<>>
            /\ UNCHANGED active_connections
       ELSE /\ bc_pc' = "done"
            /\ bc_index' = 0
            /\ bc_attempted' = {}
            /\ bc_disconnected' = <<>>
            /\ UNCHANGED <<bc_connection, active_connections>>
    /\ UNCHANGED <<ws_pc, ws_open, othersOfWs>>

\* the send of broadcast returns, or raises for a client that went away; a
\* send made while the client goes away may still return
SendReturns ==
    /\ bc_pc = "sending"
    /\ \E raised \in IF ws_open[bc_connection] THEN {FALSE} ELSE BOOLEAN :
          NextConnection(bc_index,
                         IF raised THEN Append(bc_disconnected, bc_connection)
                         ELSE bc_disconnected)
    /\ UNCHANGED <<ws_pc, ws_open, bc_stayed, othersOfWs>>

NextWs ==
    \/ \E w \in Sockets : ClientCloses(w)
    \/ \E w \in Sockets : Connect(w)
    \/ \E w \in Sockets : Receive(w)
    \/ \E w \in Sockets : Reply(w)
    \/ \E w \in Sockets : HandlerDisconnects(w)
    \/ BroadcastStarts
    \/ SendReturns

SpecWs == InitWs /\ [][NextWs]_vars

(***************************************************************************)
(* Properties of the ConnectionManager (SpecWs).                           *)
(***************************************************************************)

\* C27: under every interleaving of handlers and broadcasts, disconnect is
\* only called for a websocket that is in active_connections: no handler and
\* no broadcast ends in the error of removing an absent connection.
C27_DisconnectOnlyListed ==
    /\ bc_pc # "failed"
    /\ \A w \in Sockets : ws_pc[w] # "failed"

\* C28: a broadcast that has ended has called send_text on every websocket
\* that was in active_connections from its start to its end, whatever
\* connected or disconnected while it was suspended in a send.
C28_BroadcastReachesAllThatStay ==
    bc_pc \in {"done", "failed"} => bc_stayed \subseteq bc_attempted

(***************************************************************************)
(* clusters.py: the ClusterManager and its dict of registered clusters.    *)
(* A cluster is the mapping handed in, of which id and name are kept here. *)
(***************************************************************************)

MaxCalls == 4

CLUSTER_DEFAULT == <<"d", "e", "f", "a", "u", "l", "t">>
CLUSTER_PREFIX == <<"c", "l", "u", "s", "t", "e", "r", "-">>
CLUSTER_PROD == <<"p", "r", "o", "d">>
CLUSTER_NAME == <<"m", "i", "n", "i", "k", "u", "b", "e">>

\* f"cluster-{n}"
GeneratedId(n) == PyStr(CLUSTER_PREFIX \o IntToStr(n))

\* _load_clusters: the one cluster the manager is constructed with
default_cluster == [id |-> PyStr(CLUSTER_DEFAULT), name |-> PyStr(CLUSTER_NAME)]

\* cluster_data.get("id") or f"cluster-{len(self.clusters)}"
ClusterIdFor(registered, cluster_data) ==
    IF Truthy(DictGet(cluster_data.id, Null))
    THEN cluster_data.id
    ELSE GeneratedId(Cardinality(DOMAIN registered))

\* self.clusters[cluster_id] = cluster_data
ClusterSet(registered, cluster_id, cluster_data) ==
    [k \in DOMAIN registered \cup {cluster_id} |->
        IF k = cluster_id THEN cluster_data ELSE registered[k]]

\* del self.clusters[cluster_id]
ClusterDel(registered, cluster_id) ==
    [k \in DOMAIN registered \ {cluster_id} |-> registered[k]]

\* the mappings handed to add_cluster: without id, with an empty one, with
\* an id of the caller's and with one of the generated form
ClusterData ==
    [id : {Absent, PyStr(<<>>), PyStr(CLUSTER_PROD), GeneratedId(2)},
     name : {PyStr(<<"a">>), PyStr(<<"b">>)}]

\* the ids handed to remove_cluster
ClusterIds ==
    {PyStr(CLUSTER_DEFAULT), PyStr(CLUSTER_PROD)}
        \cup {GeneratedId(n) : n \in 1..MaxCalls}

othersOfCluster ==
    <<utilsVars, sizingVars, orchVars, mergeVars, patchVars, securityVars,
      imageVars, analyzeVars, wsVars, httpVars>>

InitCluster ==
    /\ clusters = [k \in {PyStr(CLUSTER_DEFAULT)} |-> default_cluster]
    /\ c_call = <<"__init__">>
    /\ c_calls = 0
    /\ UtilsIdle
    /\ SizingIdle
    /\ OrchIdle
    /\ MergeIdle
    /\ PatchIdle
    /\ SecurityIdle
    /\ ImageIdle
    /\ AnalyzeIdle
    /\ WsIdle
    /\ HttpIdle

add_cluster ==
    /\ c_calls < MaxCalls
    /\ \E cluster_data \in ClusterData :
          /\ clusters' = ClusterSet(clusters,
                                    ClusterIdFor(clusters, cluster_data),
                                    cluster_data)
          /\ c_call' = <<"add_cluster", cluster_data,
                         ClusterIdFor(clusters, cluster_data)>>
    /\ c_calls' = c_calls + 1
    /\ UNCHANGED othersOfCluster

remove_cluster ==
    /\ c_calls < MaxCalls
    /\ \E cluster_id \in ClusterIds :
          IF cluster_id \in DOMAIN clusters
          THEN /\ clusters' = ClusterDel(clusters, cluster_id)
               /\ c_call' = <<"remove_cluster", cluster_id, TRUE>>
          ELSE /\ c_call' = <<"remove_cluster", cluster_id, FALSE>>
               /\ UNCHANGED clusters
    /\ c_calls' = c_calls + 1
    /\ UNCHANGED othersOfCluster

NextCluster == add_cluster \/ remove_cluster

SpecCluster == InitCluster /\ [][NextCluster]_vars

(***************************************************************************)
(* Properties of the ClusterManager (SpecCluster).                         *)
(***************************************************************************)

\* the step is an add_cluster call whose data carries no id
AddsWithoutId ==
    /\ c_calls' = c_calls + 1
    /\ c_call'[1] = "add_cluster"
    /\ c_call'[2].id = Absent

\* C29: after any sequence of add_cluster and remove_cluster calls, an
\* add_cluster call whose data carries no id returns an id that is not yet
\* registered and leaves every registered cluster in place: the number of
\* registered clusters grows by one and no entry is overwritten.
C29_AddWithoutIdIsFresh ==
    [][AddsWithoutId =>
          /\ c_call'[3] \notin DOMAIN clusters
          /\ Cardinality(DOMAIN clusters')
               = Cardinality(DOMAIN clusters) + 1
          /\ \A k \in DOMAIN clusters :
                k \in DOMAIN clusters' /\ clusters'[k] = clusters[k]]_vars

(***************************************************************************)
(* main.py: the handlers of /recommendations/{workload_id} and of          *)
(* /github_webhook. Each wraps its body in try ... except Exception; what  *)
(* the body raises or returns is an outcome, and the response is what the  *)
(* framework makes of the outcome of the handler.                          *)
(***************************************************************************)

HTTPException(status_code, detail) ==
    <<"raise", <<"HTTPException", status_code, detail>>>>

\* except Exception as e: raise HTTPException(status_code=500, detail=str(e))
ExceptException(outcome) ==
    IF outcome[1] = "raise"
    THEN HTTPException(500, <<"str", outcome[2]>>)
    ELSE outcome

\* the response to the client: the status and detail of an HTTPException
\* raised by the handler, or 200 with what it returned
ResponseOf(outcome) ==
    IF outcome[1] = "raise"
    THEN <<"response", outcome[2][2], outcome[2][3]>>
    ELSE <<"response", 200, outcome[2]>>

\* the try body of get_workload_recommendations
RecommendationsBody(request) ==
    IF request.database = "raise" THEN <<"raise", <<"APIError">>>>
    ELSE IF request.workload = <<>>
    THEN HTTPException(404, "Workload not found")
    ELSE IF request.cost_metrics = <<>>
    THEN HTTPException(404, "No metrics found for workload")
    ELSE IF request.recommend = "raise" THEN <<"raise", <<"Exception">>>>
    ELSE <<"return", "recommendation">>

get_workload_recommendations(request) ==
    ExceptException(RecommendationsBody(request))

WEBHOOK_SECRET == "secret"

\* "sha256=" + hmac.new(secret, msg=payload_body, sha256).hexdigest()
Signature(secret, payload_body) == <<"sha256=", secret, payload_body>>

verify_github_signature(payload_body, signature) ==
    IF ~Truthy(signature) THEN FALSE
    ELSE Signature(WEBHOOK_SECRET, payload_body) = signature

\* the webhook body after the signature check: the payload is parsed, and
\* an opened or synchronized pull request is analysed through the GitHub
\* integration
WebhookProcessing(request) ==
    IF request.event = "pull_request"
        /\ request.payload_body \in {"opened", "synchronize"}
    THEN IF ~request.integration
         THEN <<"return", "GitHub integration not configured">>
         ELSE IF request.github = "raise" THEN <<"raise", <<"Exception">>>>
         ELSE <<"return", "processed">>
    ELSE <<"return", "processed">>

\* the try body of github_webhook
WebhookBody(request) ==
    IF ~verify_github_signature(request.payload_body, request.signature)
    THEN HTTPException(401, "Invalid signature")
    ELSE WebhookProcessing(request)

github_webhook(request) == ExceptException(WebhookBody(request))

\* one row of the workloads table
WorkloadRow == [name |-> NAME_WEB, kind |-> KIND_DEPLOYMENT]

RecommendationRequests ==
    [endpoint : {"recommendations"}, database : {"ok", "raise"},
     workload : {<<>>, <<WorkloadRow>>}, cost_metrics : CostData,
     recommend : {"ok", "raise"}]

\* the payloads, each the action it carries
PayloadBodies == {"opened", "closed"}

\* no X-Hub-Signature-256 header, an empty one, and the signatures of the
\* payloads under the configured secret and under another
Signatures ==
    {Null, PyStr(<<>>)}
        \cup {Signature(secret, body) :
                 secret \in {WEBHOOK_SECRET, "other"}, body \in PayloadBodies}

WebhookRequests ==
    [endpoint : {"github_webhook"}, signature : Signatures,
     payload_body : PayloadBodies, event : {"pull_request", "ping"},
     integration : BOOLEAN, github : {"ok", "raise"}]

othersOfHttp ==
    <<utilsVars, sizingVars, orchVars, mergeVars, patchVars, securityVars,
      imageVars, analyzeVars, wsVars, clusterVars>>

InitHttp ==
    /\ h_request \in RecommendationRequests \cup WebhookRequests
    /\ h_response = Pending
    /\ h_processed = FALSE
    /\ UtilsIdle
    /\ SizingIdle
    /\ OrchIdle
    /\ MergeIdle
    /\ PatchIdle
    /\ SecurityIdle
    /\ ImageIdle
    /\ AnalyzeIdle
    /\ WsIdle
    /\ ClusterIdle

GetWorkloadRecommendations ==
    /\ h_response = Pending
    /\ h_request.endpoint = "recommendations"
    /\ \E out \in {get_workload_recommendations(h_request)} :
          h_response' = ResponseOf(out)
    /\ UNCHANGED <<h_request, h_processed, othersOfHttp>>

GithubWebhook ==
    /\ h_response = Pending
    /\ h_request.endpoint = "github_webhook"
    /\ \E out \in {github_webhook(h_request)} :
          h_response' = ResponseOf(out)
    /\ h_processed' = verify_github_signature(h_request.payload_body,
                                              h_request.signature)
    /\ UNCHANGED <<h_request, othersOfHttp>>

NextHttp == GetWorkloadRecommendations \/ GithubWebhook

SpecHttp == InitHttp /\ [][NextHttp]_vars

(***************************************************************************)
(* Properties of the two handlers (SpecHttp).                              *)
(***************************************************************************)

Responded == h_response # Pending

\* the request is for a workload the database answers for without a row,
\* or with a row and without cost metrics
UnknownOrWithoutMetrics ==
    /\ h_request.endpoint = "recommendations"
    /\ h_request.database = "ok"
    /\ h_request.workload = <<>> \/ h_request.cost_metrics = <<>>

\* the webhook request has no signature header, or one that is not the
\* signature of its payload under the configured secret
BadSignature ==
    /\ h_request.endpoint = "github_webhook"
    /\ h_request.signature # Signature(WEBHOOK_SECRET, h_request.payload_body)

\* C30: an HTTP error raised inside a handler reaches the client with its
\* own status code: /recommendations answers 404 for an unknown workload and
\* for one without metrics; /github_webhook answers 401 for a missing or
\* invalid signature and does not process the payload.
C30_DeliberateStatusReachesClient ==
    Responded =>
        /\ UnknownOrWithoutMetrics => h_response[2] = 404
        /\ BadSignature => h_response[2] = 401 /\ ~h_processed

====
